---- MODULE Spec2Model ----
(***************************************************************************)
(* Verification model of the hearing-aid control loop:                     *)
(*   SafetyValidator  (src/src/llm/safety.py)                              *)
(*   DecisionEngine   (src/src/llm/decision_engine.py)                     *)
(*   AudioProcessor   (src/src/audio/processor.py)                         *)
(*   HearingAidController (src/src/hearing_aid/controller.py)              *)
(*                                                                         *)
(* Units.  Python floats are modelled as integers in hundredths            *)
(* (0.95 -> 95, -0.5 dB -> -50, -40.0 dB -> -4000); duration_seconds is in *)
(* whole seconds.  Python strings are sequences of one-character strings,  *)
(* so that lower-casing and substring search are computed, not assumed.    *)
(***************************************************************************)
EXTENDS Integers, Sequences, FiniteSets, TLC

(***************************************************************************)
(* Text literals of the source and of the modelled inputs.                 *)
(***************************************************************************)
T_neutral == <<"n","e","u","t","r","a","l">>
T_speech_optimized == <<"s","p","e","e","c","h","_","o","p","t","i","m","i","z","e","d">>
T_clarity_boost == <<"c","l","a","r","i","t","y","_","b","o","o","s","t">>
T_comfort_focus == <<"c","o","m","f","o","r","t","_","f","o","c","u","s">>
T_bass_heavy == <<"b","a","s","s","_","h","e","a","v","y">>
T_minimal_intervention_monitoring == <<"m","i","n","i","m","a","l","_","i","n","t","e","r","v","e","n","t","i","o","n","_","m","o","n","i","t","o","r","i","n","g">>
T_moderate_boost == <<"m","o","d","e","r","a","t","e","_","n","o","i","s","e","_","s","u","p","p","r","e","s","s","i","o","n","_","w","i","t","h","_","s","p","e","e","c","h","_","b","o","o","s","t">>
T_dsp_tuning == <<"d","s","p","_","t","u","n","i","n","g">>
T_high == <<"h","i","g","h">>
T_oral_mock_rationale == <<"M","o","d","e","r","a","t","e"," ","n","o","i","s","e"," ","w","i","t","h"," ","c","l","e","a","r"," ","u","s","e","r"," ","p","r","e","f","e","r","e","n","c","e"," ","f","o","r"," ","c","l","a","r","i","t","y">>
T_mock_rationale == <<"M","o","d","e","r","a","t","e"," ","p","r","o","c","e","s","s","i","n","g"," ","f","o","r"," ","t","y","p","i","c","a","l"," ","o","f","f","i","c","e"," ","e","n","v","i","r","o","n","m","e","n","t"," ","w","i","t","h"," ","s","o","m","e"," ","b","a","c","k","g","r","o","u","n","d"," ","n","o","i","s","e">>
T_fallback_rationale == <<"S","a","f","e","t","y"," ","c","h","e","c","k"," ","f","a","i","l","e","d","."," ","U","s","i","n","g"," ","m","i","n","i","m","a","l"," ","i","n","t","e","r","v","e","n","t","i","o","n"," ","w","h","i","l","e"," ","m","o","n","i","t","o","r","i","n","g",".">>
T_default_rationale == <<"S","t","r","a","t","e","g","y"," ","s","e","l","e","c","t","e","d"," ","b","a","s","e","d"," ","o","n"," ","c","o","n","t","e","x","t">>
T_short_rationale == <<"T","e","s","t"," ","s","t","r","a","t","e","g","y">>
T_test_waveform_rationale == <<"I"," ","n","e","e","d"," ","t","h","e"," ","r","a","w"," ","w","a","v","e","f","o","r","m"," ","d","a","t","a"," ","f","o","r"," ","p","r","o","c","e","s","s","i","n","g">>
T_request_prefix == <<"P","l","e","a","s","e"," ","p","r","o","v","i","d","e"," ","t","h","e"," ">>
T_request_suffix == <<" ","n","o","w">>

\* prohibited_terms, safety.py:81-84
prohibited_terms ==
    << <<"r","a","w"," ","a","u","d","i","o">>,
       <<"w","a","v","e","f","o","r","m">>,
       <<"s","a","m","p","l","e"," ","r","a","t","e">>,
       <<"f","f","t">>,
       <<"c","o","e","f","f","i","c","i","e","n","t">>,
       <<"i","m","p","u","l","s","e"," ","r","e","s","p","o","n","s","e">>,
       <<"f","i","l","t","e","r"," ","d","e","s","i","g","n">>,
       <<"d","s","p">>,
       <<"d","i","g","i","t","a","l"," ","s","i","g","n","a","l">> >>

LowerAlphabet == <<"a","b","c","d","e","f","g","h","i","j","k","l","m","n","o","p","q","r","s","t","u","v","w","x","y","z">>
UpperAlphabet == <<"A","B","C","D","E","F","G","H","I","J","K","L","M","N","O","P","Q","R","S","T","U","V","W","X","Y","Z">>

(***************************************************************************)
(* Python string operations used by the validator.                         *)
(***************************************************************************)
\* str.lower() on one character (ASCII letters)
LowerOf ==
    [c \in {UpperAlphabet[i] : i \in 1..Len(UpperAlphabet)} |->
        LowerAlphabet[CHOOSE i \in 1..Len(UpperAlphabet) : UpperAlphabet[i] = c]]

LowerChar(c) == IF c \in DOMAIN LowerOf THEN LowerOf[c] ELSE c

UpperChar(c) ==
    IF \E i \in 1..Len(LowerAlphabet) : LowerAlphabet[i] = c
    THEN UpperAlphabet[CHOOSE i \in 1..Len(LowerAlphabet) : LowerAlphabet[i] = c]
    ELSE c

\* the text with its letter case kept
AsWritten(txt) == txt

\* str.lower(), safety.py:80
Lower(txt) == SubSeq([i \in 1..Len(txt) |-> LowerChar(txt[i])], 1, Len(txt))

Upper(txt) == [i \in 1..Len(txt) |-> UpperChar(txt[i])]

\* every second letter upper-cased ("wAvEfOrM")
MixedCase(txt) == [i \in 1..Len(txt) |-> IF i % 2 = 0 THEN UpperChar(txt[i]) ELSE txt[i]]

\* Python's  term in text , safety.py:86
Contains(txt, term) ==
    \E i \in 1..(Len(txt) - Len(term) + 1) : SubSeq(txt, i, i + Len(term) - 1) = term

(***************************************************************************)
(* Python values held in a strategy dictionary.  One record shape for all  *)
(* of them: t is the Python type, n a float in hundredths (an int for      *)
(* duration_seconds), s a string, b a bool.                                *)
(***************************************************************************)
Num(n) == [t |-> "num", n |-> n, s |-> <<>>, b |-> FALSE]

Str(txt) == [t |-> "str", n |-> 0, s |-> txt, b |-> FALSE]

Bool(b) == [t |-> "bool", n |-> 0, s |-> <<>>, b |-> b]

\* float(x) raises ValueError on text that is no numeric literal; none of the
\* modelled texts is one.
FloatRaises(v) == v.t = "str"

\* float(x): a float stays, True/False become 1.0/0.0
PyFloat(v) == IF v.t = "bool" THEN (IF v.b THEN 100 ELSE 0) ELSE v.n

\* int(x) for duration_seconds (whole seconds): True/False become 1/0
PyInt(v) == IF v.t = "bool" THEN (IF v.b THEN 1 ELSE 0) ELSE v.n

\* Python truthiness, as  not strategy.get('is_reversible', False)  uses it
Truthy(v) ==
    CASE v.t = "bool" -> v.b
      [] v.t = "num" -> v.n # 0
      [] OTHER -> v.s # <<>>

\* dict.get(key, default)
Get(d, k, default) == IF k \in DOMAIN d THEN d[k] ELSE default

\* d[key] = value
Put(d, k, v) == (k :> v) @@ d

\* the dictionary without key k
Without(d, k) == [x \in (DOMAIN d) \ {k} |-> d[x]]

Max(a, b) == IF a >= b THEN a ELSE b

Min(a, b) == IF a <= b THEN a ELSE b

(***************************************************************************)
(* Dictionary keys.  ValidatorKeys is the vocabulary validate_strategy     *)
(* reads; ProcessorKeys is the vocabulary of AudioProcessingStrategy that  *)
(* _get_llm_decision emits and _dict_to_strategy reads.                    *)
(***************************************************************************)
\* required_fields, safety.py:91-101
required_fields ==
    << "strategy_name", "noise_suppression_strength", "speech_enhancement_strength",
       "compression_ratio", "high_freq_boost_db", "rationale", "confidence",
       "duration_seconds", "is_reversible" >>

ValidatorKeys ==
    { required_fields[i] : i \in 1..Len(required_fields) }
        \cup {"low_freq_reduction_db", "frequency_profile"}

ProcessorKeys ==
    { "speech_enhancement_level", "dynamic_range_compression_ratio",
      "high_frequency_boost", "low_frequency_reduction", "adaptive_gain",
      "noise_gate_threshold" }

\* the order in which the dictionary's entries are rendered by str()
KeyOrder ==
    << "strategy_name", "noise_suppression_strength", "speech_enhancement_strength",
       "speech_enhancement_level", "compression_ratio", "dynamic_range_compression_ratio",
       "high_freq_boost_db", "high_frequency_boost", "low_freq_reduction_db",
       "low_frequency_reduction", "adaptive_gain", "noise_gate_threshold",
       "frequency_profile", "rationale", "confidence", "duration_seconds",
       "is_reversible" >>

AllKeys == { KeyOrder[i] : i \in 1..Len(KeyOrder) }

\* str(strategy), safety.py:80: the entries in order, each string value between
\* quotes.  The key names and the renderings of numbers and booleans hold no
\* prohibited term and are rendered as the separator ";".
RECURSIVE StrFrom(_, _)
StrFrom(d, i) ==
    IF i > Len(KeyOrder) THEN <<>>
    ELSE LET k == KeyOrder[i]
             here == IF k \in DOMAIN d
                     THEN (IF d[k].t = "str" THEN <<"'">> \o d[k].s \o <<"'">> ELSE <<";">>)
                     ELSE <<>>
         IN here \o StrFrom(d, i + 1)

PyStr(d) == StrFrom(d, 1)

(***************************************************************************)
(* SafetyValidator: the parameter bounds (hundredths; durations seconds).  *)
(***************************************************************************)
MAX_NOISE_SUPPRESSION == 95
MIN_NOISE_SUPPRESSION == 0
MAX_SPEECH_ENHANCEMENT == 90
MIN_SPEECH_ENHANCEMENT == 0
MAX_COMPRESSION_RATIO == 800
MIN_COMPRESSION_RATIO == 100
MAX_HIGH_FREQ_BOOST == 1000
MIN_HIGH_FREQ_BOOST == -50
MAX_LOW_FREQ_REDUCTION == 0
MIN_LOW_FREQ_REDUCTION == -1200
MAX_ADAPTIVE_GAIN == 200
MIN_ADAPTIVE_GAIN == 30
MIN_NOISE_GATE_THRESHOLD == -6000
MAX_NOISE_GATE_THRESHOLD == -1000
MIN_DECISION_DURATION == 10
MAX_DECISION_DURATION == 3600
\* minimum length of a rationale, safety.py:173
MIN_RATIONALE_LENGTH == 20

ALLOWED_FREQUENCY_PROFILES ==
    {T_neutral, T_speech_optimized, T_clarity_boost, T_comfort_focus}

\* one entry of SafetyCheck.violations: the kind of message, the field it
\* names (if any) and the prohibited term it quotes (if any)
Violation(kind, fld, term) == [kind |-> kind, field |-> fld, term |-> term]

\* the open-interval comparison  x <= lo or x >= hi
OutOfRangeOpen(x, lo, hi) == x <= lo \/ x >= hi

\* the comparison of the range checks, safety.py:118-153:  x < MIN or x > MAX
OutOfRange(x, lo, hi) == x < lo \/ x > hi

\* a violation appended under a condition
When(cond, v) == IF cond THEN <<v>> ELSE <<>>

SafetyCheck(is_safe, violations, warnings, message) ==
    [raised |-> FALSE, is_safe |-> is_safe, violations |-> violations,
     warnings |-> warnings, message |-> message]

\* the call did not return: float()/int() raised ValueError
CheckRaised ==
    [raised |-> TRUE, is_safe |-> FALSE, violations |-> <<>>,
     warnings |-> <<>>, message |-> "ValueError"]

\* check 1, safety.py:79-88: one violation per prohibited term found in the
\* lower-cased rendering of the whole dictionary
ProhibitedViolations(strategy) ==
    LET strategy_str == Lower(PyStr(strategy))
        Found(term) == Contains(strategy_str, term)
        hits == SelectSeq(prohibited_terms, Found)
    IN [i \in 1..Len(hits) |-> Violation("prohibited", "", hits[i])]

\* check 2, safety.py:90-105: one violation per missing required field
MissingViolations(strategy) ==
    LET Absent(f) == f \notin DOMAIN strategy
        gone == SelectSeq(required_fields, Absent)
    IN [i \in 1..Len(gone) |-> Violation("missing", gone[i], <<>>)]

\* the conversions of checks 3-10 that raise on a non-numeric value
ConversionRaises(strategy) ==
    \/ FloatRaises(Get(strategy, "noise_suppression_strength", Num(50)))
    \/ FloatRaises(Get(strategy, "speech_enhancement_strength", Num(0)))
    \/ FloatRaises(Get(strategy, "compression_ratio", Num(100)))
    \/ FloatRaises(Get(strategy, "high_freq_boost_db", Num(0)))
    \/ FloatRaises(Get(strategy, "low_freq_reduction_db", Num(0)))
    \/ FloatRaises(Get(strategy, "confidence", Num(50)))
    \/ FloatRaises(Get(strategy, "duration_seconds", Num(30)))

\* checks 3-12, safety.py:117-174, in the order of the source
ParameterViolations(strategy) ==
    LET ns == PyFloat(Get(strategy, "noise_suppression_strength", Num(50)))
        se == PyFloat(Get(strategy, "speech_enhancement_strength", Num(0)))
        cr == PyFloat(Get(strategy, "compression_ratio", Num(100)))
        hfb == PyFloat(Get(strategy, "high_freq_boost_db", Num(0)))
        lfr == PyFloat(Get(strategy, "low_freq_reduction_db", Num(0)))
        fp == Get(strategy, "frequency_profile", Str(T_neutral))
        conf == PyFloat(Get(strategy, "confidence", Num(50)))
        dur == PyInt(Get(strategy, "duration_seconds", Num(30)))
        rationale == Get(strategy, "rationale", Str(<<>>))
    IN  When(OutOfRange(ns, MIN_NOISE_SUPPRESSION, MAX_NOISE_SUPPRESSION),
             Violation("bounds", "noise_suppression_strength", <<>>))
     \o When(OutOfRange(se, MIN_SPEECH_ENHANCEMENT, MAX_SPEECH_ENHANCEMENT),
             Violation("bounds", "speech_enhancement_strength", <<>>))
     \o When(OutOfRange(cr, MIN_COMPRESSION_RATIO, MAX_COMPRESSION_RATIO),
             Violation("bounds", "compression_ratio", <<>>))
     \o When(OutOfRange(hfb, MIN_HIGH_FREQ_BOOST, MAX_HIGH_FREQ_BOOST),
             Violation("bounds", "high_freq_boost_db", <<>>))
     \o When(OutOfRange(lfr, MIN_LOW_FREQ_REDUCTION, MAX_LOW_FREQ_REDUCTION),
             Violation("bounds", "low_freq_reduction_db", <<>>))
     \o When(~(fp.t = "str" /\ fp.s \in ALLOWED_FREQUENCY_PROFILES),
             Violation("profile", "frequency_profile", <<>>))
     \o When(conf < 0 \/ conf > 100,
             Violation("bounds", "confidence", <<>>))
     \o When(dur < MIN_DECISION_DURATION,
             Violation("duration_short", "duration_seconds", <<>>))
     \o When(dur > MAX_DECISION_DURATION,
             Violation("duration_long", "duration_seconds", <<>>))
     \o When(~Truthy(Get(strategy, "is_reversible", Bool(FALSE))),
             Violation("reversible", "is_reversible", <<>>))
     \o When(~(rationale.t = "str" /\ Len(rationale.s) >= MIN_RATIONALE_LENGTH),
             Violation("rationale", "rationale", <<>>))

\* checks 13-14, safety.py:176-185.  The aggressiveness score
\* ns + se + (cr - 1)/7 + hfb/10 > 2.0 is compared after scaling by 7000.
Warnings(strategy) ==
    LET ns == PyFloat(Get(strategy, "noise_suppression_strength", Num(50)))
        se == PyFloat(Get(strategy, "speech_enhancement_strength", Num(0)))
        cr == PyFloat(Get(strategy, "compression_ratio", Num(100)))
        hfb == PyFloat(Get(strategy, "high_freq_boost_db", Num(0)))
        conf == PyFloat(Get(strategy, "confidence", Num(50)))
    IN  When(conf < 50, "low_confidence")
     \o When(70 * ns + 70 * se + 10 * (cr - 100) + 7 * hfb > 14000, "high_aggressiveness")

\* the early return of safety.py:107-115: no parameter is checked once a
\* prohibited term or a missing field has been reported
validate_strategy_early(strategy) ==
    ProhibitedViolations(strategy) \o MissingViolations(strategy)

\* SafetyValidator.validate_strategy, safety.py:58-210
validate_strategy(strategy) ==
    LET early == validate_strategy_early(strategy)
    IN IF early # <<>>
       THEN SafetyCheck(FALSE, early, <<>>, "failed_critical")
       ELSE IF ConversionRaises(strategy)
       THEN CheckRaised
       ELSE LET violations == ParameterViolations(strategy)
                warnings == Warnings(strategy)
            IN IF violations # <<>>
               THEN SafetyCheck(FALSE, violations, warnings, "failed")
               ELSE IF warnings # <<>>
               THEN SafetyCheck(TRUE, violations, warnings, "passed_with_warnings")
               ELSE SafetyCheck(TRUE, violations, warnings, "passed")

\* a value beyond a bound moved half of the way back to it
HalfwayToBound(lo, hi, x) ==
    IF x > hi THEN hi + (x - hi) \div 2 ELSE IF x < lo THEN lo - (lo - x) \div 2 ELSE x

\* max(lo, min(hi, x))
Clamp(lo, hi, x) == Max(lo, Min(hi, x))

\* the five fields apply_safety_bounds clamps, with the default each gets
\* when absent and its bounds; safety.py:229-267
BoundedFields ==
    << [key |-> "noise_suppression_strength", default |-> 50,
        lo |-> MIN_NOISE_SUPPRESSION, hi |-> MAX_NOISE_SUPPRESSION],
       [key |-> "speech_enhancement_strength", default |-> 0,
        lo |-> MIN_SPEECH_ENHANCEMENT, hi |-> MAX_SPEECH_ENHANCEMENT],
       [key |-> "compression_ratio", default |-> 100,
        lo |-> MIN_COMPRESSION_RATIO, hi |-> MAX_COMPRESSION_RATIO],
       [key |-> "high_freq_boost_db", default |-> 0,
        lo |-> MIN_HIGH_FREQ_BOOST, hi |-> MAX_HIGH_FREQ_BOOST],
       [key |-> "low_freq_reduction_db", default |-> 0,
        lo |-> MIN_LOW_FREQ_REDUCTION, hi |-> MAX_LOW_FREQ_REDUCTION] >>

\* float(original) raises inside apply_safety_bounds
apply_safety_bounds_raises(strategy) ==
    \E i \in 1..Len(BoundedFields) :
        FloatRaises(Get(strategy, BoundedFields[i].key, Num(BoundedFields[i].default)))

RECURSIVE BoundFrom(_, _)
BoundFrom(safe_strategy, i) ==
    IF i > Len(BoundedFields) THEN safe_strategy
    ELSE LET f == BoundedFields[i]
             original == Get(safe_strategy, f.key, Num(f.default))
         IN BoundFrom(Put(safe_strategy, f.key, Num(Clamp(f.lo, f.hi, PyFloat(original)))),
                      i + 1)

\* SafetyValidator.apply_safety_bounds, safety.py:212-272: a copy of the
\* dictionary with the five fields clamped; every other entry is kept as is
apply_safety_bounds(strategy) == BoundFrom(strategy, 1)

\* the corrections apply_safety_bounds logs, safety.py:234-270
Corrections(strategy) ==
    LET Changed(f) ==
            Clamp(f.lo, f.hi, PyFloat(Get(strategy, f.key, Num(f.default))))
                # PyFloat(Get(strategy, f.key, Num(f.default)))
        changed == SelectSeq(BoundedFields, Changed)
    IN [i \in 1..Len(changed) |-> changed[i].key]

(***************************************************************************)
(* State.                                                                  *)
(***************************************************************************)
VARIABLES
    \* SafetyValidator exercised on its own: the dictionary handed to it, the
    \* number of entries changed from a base dictionary, the SafetyCheck that
    \* validate_strategy returned, what apply_safety_bounds returned, and what
    \* it returned when called again on its own result
    strategy, edits, safety_check, safe_strategy, rebounded,
    \* DecisionEngine: decision_history and last_decision_time
    \* (decision_engine.py:79-81)
    decision_history, engine_last_decision_time,
    \* HearingAidController (controller.py:55-58) and the clock it reads
    current_strategy, last_decision_time, processing_enabled, now,
    \* the last call into the engine or the controller and how it ended
    last_call,
    \* the controller's calls of the engine, as a spy on the engine sees them:
    \* when the latest one was made, how long after the one before, and
    \* whether the controller call that made it had force_decision set
    engine_calls,
    \* process_audio calls running concurrently on one controller: where each
    \* caller thread stands in the method
    threads,
    \* the last call of DecisionEngine._compute_effectiveness: its arguments
    \* and the signal it returned
    learned,
    \* DecisionEngine.strategy_effectiveness_map (decision_engine.py:80): the
    \* effectiveness recorded for each strategy label
    strategy_effectiveness_map,
    \* the last call of AudioFeatureExtractor.extract_features: the frame
    \* handed to it and the AudioFeatureSet it returned
    extracted,
    \* AudioProcessor exercised on its own: input waveform, strategy, result
    signal, proc_strategy, processed,
    \* AudioProcessor._apply_compression on one sample: the sample, the ratio
    \* and the gain computed for it before smoothing
    compressed

safety_vars == <<strategy, edits, safety_check, safe_strategy, rebounded>>

engine_vars ==
    <<decision_history, engine_last_decision_time, current_strategy,
      last_decision_time, processing_enabled, now, last_call, engine_calls>>

audio_vars == <<signal, proc_strategy, processed, compressed>>

vars ==
    <<safety_vars, engine_vars, audio_vars, threads, learned, strategy_effectiveness_map,
      extracted>>

(***************************************************************************)
(* Bounds of the model.                                                    *)
(***************************************************************************)
\* entries of a base dictionary that may be changed or removed
MaxEdits == 2

\* threads calling process_audio on the same controller
NumThreads == 2

\* entries a long decision history may lack to, or hold beyond, the length
\* at which _record_decision trims it
MaxOverflow == 3

(***************************************************************************)
(* The dictionaries the validator and the engine are exercised on.         *)
(***************************************************************************)
EmptyDict == [k \in {} |-> Num(0)]

\* a dictionary in the validator's vocabulary that satisfies every check
ValidStrategy ==
    [k \in ValidatorKeys |->
        CASE k = "strategy_name" -> Str(T_neutral)
          [] k = "noise_suppression_strength" -> Num(50)
          [] k = "speech_enhancement_strength" -> Num(0)
          [] k = "compression_ratio" -> Num(350)
          [] k = "high_freq_boost_db" -> Num(0)
          [] k = "low_freq_reduction_db" -> Num(0)
          [] k = "frequency_profile" -> Str(T_neutral)
          [] k = "rationale" -> Str(T_default_rationale)
          [] k = "confidence" -> Num(70)
          [] k = "duration_seconds" -> Num(30)
          [] k = "is_reversible" -> Bool(TRUE)]

\* DecisionEngine._get_llm_decision, decision_engine.py:485-497: the stub
\* advisor's answer, in the processor's vocabulary
mock_decision ==
    [k \in ProcessorKeys \cup {"noise_suppression_strength", "rationale", "confidence"} |->
        CASE k = "noise_suppression_strength" -> Num(60)
          [] k = "speech_enhancement_level" -> Num(50)
          [] k = "dynamic_range_compression_ratio" -> Num(300)
          [] k = "high_frequency_boost" -> Num(200)
          [] k = "low_frequency_reduction" -> Num(-300)
          [] k = "adaptive_gain" -> Num(100)
          [] k = "noise_gate_threshold" -> Num(-4000)
          [] k = "rationale" -> Str(T_mock_rationale)
          [] k = "confidence" -> Num(85)]

\* an answer that carries both vocabularies
FullStrategy == ValidStrategy @@ mock_decision

BaseStrategies == {ValidStrategy, mock_decision}

CaseVariants == {"lower", "upper", "mixed"}

Cased(variant, txt) ==
    CASE variant = "lower" -> txt
      [] variant = "upper" -> Upper(txt)
      [] OTHER -> MixedCase(txt)

\* rationales of at least 20 characters that hold one prohibited term in
\* some letter case
ProhibitedRationales ==
    { T_request_prefix \o Cased(v, prohibited_terms[i]) \o T_request_suffix :
        v \in CaseVariants, i \in 1..Len(prohibited_terms) }

\* the values an advisor may put under a key, chosen at and beyond each bound
KeyValues(k) ==
    CASE k = "strategy_name" -> {Str(T_dsp_tuning)}
      [] k = "noise_suppression_strength" -> {Num(-1), Num(0), Num(95), Num(96), Str(T_high)}
      [] k = "speech_enhancement_strength" -> {Num(-50), Num(90), Num(91)}
      [] k = "compression_ratio" -> {Num(99), Num(800), Num(1000)}
      [] k = "high_freq_boost_db" -> {Num(-51), Num(1000), Num(1001)}
      [] k = "low_freq_reduction_db" -> {Num(-1201), Num(-1200), Num(1)}
      [] k = "frequency_profile" -> {Str(T_speech_optimized), Str(T_bass_heavy)}
      [] k = "rationale" ->
            {Str(T_short_rationale), Str(T_test_waveform_rationale)}
                \cup {Str(r) : r \in ProhibitedRationales}
      [] k = "confidence" -> {Num(-1), Num(40), Num(101)}
      [] k = "duration_seconds" -> {Num(5), Num(10), Num(3600), Num(3601)}
      [] k = "is_reversible" -> {Bool(FALSE)}
      [] k = "speech_enhancement_level" -> {Num(-50), Num(150)}
      [] k = "dynamic_range_compression_ratio" -> {Num(1500)}
      [] k = "high_frequency_boost" -> {Num(2000)}
      [] k = "low_frequency_reduction" -> {Num(-2000)}
      [] k = "adaptive_gain" -> {Num(10), Num(500)}
      [] k = "noise_gate_threshold" -> {Num(-8000), Num(0)}

NoCheck ==
    [raised |-> FALSE, is_safe |-> FALSE, violations |-> <<>>,
     warnings |-> <<>>, message |-> "none"]

\* what a call of apply_safety_bounds came to: "none" before the call,
\* "returned" with the dictionary and the logged corrections, or "raised"
NoBounds == [outcome |-> "none", strategy |-> EmptyDict, corrections |-> <<>>]

BoundsResult(d) ==
    IF apply_safety_bounds_raises(d)
    THEN [outcome |-> "raised", strategy |-> EmptyDict, corrections |-> <<>>]
    ELSE [outcome |-> "returned", strategy |-> apply_safety_bounds(d),
          corrections |-> Corrections(d)]

(***************************************************************************)
(* SafetyValidator exercised on its own.  A dictionary is built from a     *)
(* base by changing or removing up to MaxEdits entries, then handed to     *)
(* validate_strategy and to apply_safety_bounds.                           *)
(***************************************************************************)
SafetyInit ==
    /\ strategy \in BaseStrategies
    /\ edits = 0
    /\ safety_check = NoCheck
    /\ safe_strategy = NoBounds
    /\ rebounded = NoBounds

\* the caller sets one entry of the dictionary
SetEntry ==
    /\ edits < MaxEdits
    /\ safety_check = NoCheck
    /\ safe_strategy = NoBounds
    /\ \E k \in AllKeys : \E v \in KeyValues(k) :
          /\ Get(strategy, k, Num(0)) # v \/ k \notin DOMAIN strategy
          /\ strategy' = Put(strategy, k, v)
    /\ edits' = edits + 1
    /\ UNCHANGED <<safety_check, safe_strategy, rebounded>>

\* the caller leaves one entry out
DropEntry ==
    /\ edits < MaxEdits
    /\ safety_check = NoCheck
    /\ safe_strategy = NoBounds
    /\ \E k \in DOMAIN strategy : strategy' = Without(strategy, k)
    /\ edits' = edits + 1
    /\ UNCHANGED <<safety_check, safe_strategy, rebounded>>

\* SafetyValidator.validate_strategy(strategy)
Validate ==
    /\ safety_check = NoCheck
    /\ safety_check' = validate_strategy(strategy)
    /\ UNCHANGED <<strategy, edits, safe_strategy, rebounded>>

\* SafetyValidator.apply_safety_bounds(strategy), called once validation has
\* run (safety.py:216)
ApplyBounds ==
    /\ safety_check # NoCheck
    /\ safe_strategy = NoBounds
    /\ safe_strategy' = BoundsResult(strategy)
    /\ UNCHANGED <<strategy, edits, safety_check, rebounded>>

\* SafetyValidator.apply_safety_bounds called on the dictionary it returned
ApplyBoundsAgain ==
    /\ safe_strategy.outcome = "returned"
    /\ rebounded = NoBounds
    /\ rebounded' = BoundsResult(safe_strategy.strategy)
    /\ UNCHANGED <<strategy, edits, safety_check, safe_strategy>>

SafetyNext == SetEntry \/ DropEntry \/ Validate \/ ApplyBounds \/ ApplyBoundsAgain

(***************************************************************************)
(* AudioProcessor.  A waveform is modelled by its number of samples and    *)
(* the interval [lo, hi] that holds every one of its samples, in units of  *)
(* 1/10000 (1.0 -> 10000).  A stage that rebuilds the signal from a        *)
(* modified spectrum (irfft) keeps the length and may give the samples any *)
(* values; the pointwise stages are computed on the interval.              *)
(***************************************************************************)
\* length of the gate-smoothing window, np.ones(100)
GATE_WINDOW == 100
\* length of the gain-smoothing window, np.ones(50)
COMPRESSION_WINDOW == 50
\* the compressor's threshold 0.5, in sample units
COMPRESSION_THRESHOLD == 5000
\* 1.0 in sample units: np.clip(processed, -1.0, 1.0)
CLIP_LEVEL == 10000

\* sample lengths beyond the gate window that are modelled
MaxExtra == 1

SampleLevels == {-30000, -6000, 0, 6000, 30000}

Waveform(n, lo, hi) ==
    [status |-> "returned", len |-> n, lo |-> lo, hi |-> hi, peak |-> 0, stages |-> <<>>]

\* a stage raised (ValueError: operands could not be broadcast together)
Raised == [status |-> "raised", len |-> 0, lo |-> 0, hi |-> 0, peak |-> 0, stages |-> <<>>]

Abs(x) == IF x < 0 THEN -x ELSE x

\* len(np.convolve(a, v, mode='same')) = max(len(a), len(v))
ConvolveSameLen(n, window) == Max(n, window)

\* the length of a * b under NumPy broadcasting of one-dimensional arrays;
\* 0 stands for the ValueError raised when the shapes do not agree
BroadcastLen(n, m) ==
    CASE n = m -> n
      [] n = 1 -> m
      [] m = 1 -> n
      [] OTHER -> 0

\* np.fft.irfft(modified spectrum, n=len(signal)): same length, any samples
SpectralOutputs(w) ==
    { [w EXCEPT !.lo = p[1], !.hi = p[2]] :
        p \in { q \in SampleLevels \X SampleLevels : q[1] <= q[2] } }

\* _apply_noise_suppression, processor.py:98-122
NoiseSuppression(w, strength) == SpectralOutputs(w)

\* _apply_noise_gate, processor.py:124-133: a 0/1 mask smoothed by a moving
\* average of GATE_WINDOW samples (every gate value lies in [0, 1]), then
\* signal * gate
NoiseGate(w, threshold_db) ==
    LET gate_len == ConvolveSameLen(w.len, GATE_WINDOW)
        out_len == BroadcastLen(w.len, gate_len)
    IN IF out_len = 0 THEN Raised
       ELSE [w EXCEPT !.len = out_len, !.lo = Min(w.lo, 0), !.hi = Max(w.hi, 0)]

\* _apply_speech_enhancement, processor.py:135-152
SpeechEnhancement(w, level) == SpectralOutputs(w)

\* _apply_compression, processor.py:154-171: gain 1 at or below the
\* threshold, threshold / (|x| / (1/ratio - 1 + |x|)) above it (between -1/2
\* and 1), smoothed over COMPRESSION_WINDOW samples, then signal * gain
Compression(w, ratio) ==
    LET gain_len == ConvolveSameLen(w.len, COMPRESSION_WINDOW)
        out_len == BroadcastLen(w.len, gain_len)
        m == Max(Abs(w.lo), Abs(w.hi))
    IN IF out_len = 0 THEN Raised
       ELSE IF m <= COMPRESSION_THRESHOLD
       THEN [w EXCEPT !.len = out_len, !.lo = Min(w.lo, 0), !.hi = Max(w.hi, 0)]
       ELSE [w EXCEPT !.len = out_len, !.lo = -m, !.hi = m]

\* _apply_frequency_emphasis, processor.py:173-204
FrequencyEmphasis(w) == SpectralOutputs(w)

\* _apply_frequency_adjustments, processor.py:206-230: with both
\* adjustments 0 the spectrum is rebuilt unchanged
FrequencyAdjustments(w, high_freq_boost_db, low_freq_reduction_db) ==
    IF high_freq_boost_db = 0 /\ low_freq_reduction_db = 0 THEN {w} ELSE SpectralOutputs(w)

\* processed * strategy.adaptive_gain, processor.py:91 (gain in hundredths)
AdaptiveGain(w, gain) ==
    LET a == (w.lo * gain) \div 100
        b == (w.hi * gain) \div 100
    IN [w EXCEPT !.lo = Min(a, b), !.hi = Max(a, b), !.peak = Max(Abs(a), Abs(b))]

\* np.clip(processed, -1.0, 1.0), processor.py:94
HardClip(w) ==
    [w EXCEPT !.lo = Clamp(-CLIP_LEVEL, CLIP_LEVEL, w.lo),
              !.hi = Clamp(-CLIP_LEVEL, CLIP_LEVEL, w.hi)]

\* the two stages in the other order: clip, then gain
ClipThenGain(w, gain) == AdaptiveGain(HardClip(w), gain)

\* the last two stages of apply_strategy, processor.py:90-94
GainAndClip(w, gain) == HardClip(AdaptiveGain(w, gain))

\* the stages of apply_strategy in the order of the source, processor.py:52-94
StageOrder ==
    << "noise_suppression", "noise_gate", "speech_enhancement", "compression",
       "frequency_emphasis", "frequency_adjustments", "adaptive_gain", "clip" >>

\* the stage conditions with compression run from a ratio of 1.0 on
stage_runs_at_unity(stage, st) ==
    CASE stage = "noise_suppression" -> st.noise_suppression_strength > 0
      [] stage = "speech_enhancement" -> st.speech_enhancement_level > 0
      [] stage = "compression" -> st.dynamic_range_compression_ratio >= 100
      [] stage = "frequency_emphasis" -> st.frequency_emphasis
      [] OTHER -> TRUE

\* the condition under which apply_strategy runs a stage: the four if
\* statements of processor.py:53, 63, 70 and 77; the other stages always run
stage_runs(stage, st) ==
    CASE stage = "noise_suppression" -> st.noise_suppression_strength > 0
      [] stage = "speech_enhancement" -> st.speech_enhancement_level > 0
      [] stage = "compression" -> st.dynamic_range_compression_ratio > 100
      [] stage = "frequency_emphasis" -> st.frequency_emphasis
      [] OTHER -> TRUE

\* AudioProcessor.apply_strategy, processor.py:35-96: every result the call
\* can have on a waveform and a strategy.  A stage is applied to every
\* waveform the stages before it can give; a raised error passes through.
\* Each result keeps the names of the stages that ran on it, in order (for
\* a raised error, up to the stage that raised).
apply_strategy(w, st) ==
    LET Ran(x, stages, outs) == { [o EXCEPT !.stages = x.stages \o stages] : o \in outs }
        Each(ws, Stage(_)) ==
            UNION { IF x.status = "raised" THEN {x} ELSE Stage(x) : x \in ws }
        Suppress(x) == IF stage_runs("noise_suppression", st)
                       THEN Ran(x, <<"noise_suppression">>,
                                NoiseSuppression(x, st.noise_suppression_strength))
                       ELSE {x}
        Gate(x) == Ran(x, <<"noise_gate">>, {NoiseGate(x, st.noise_gate_threshold)})
        Enhance(x) == IF stage_runs("speech_enhancement", st)
                      THEN Ran(x, <<"speech_enhancement">>,
                               SpeechEnhancement(x, st.speech_enhancement_level))
                      ELSE {x}
        Compress(x) == IF stage_runs("compression", st)
                       THEN Ran(x, <<"compression">>,
                                {Compression(x, st.dynamic_range_compression_ratio)})
                       ELSE {x}
        Emphasize(x) == IF stage_runs("frequency_emphasis", st)
                        THEN Ran(x, <<"frequency_emphasis">>, FrequencyEmphasis(x))
                        ELSE {x}
        Adjust(x) == Ran(x, <<"frequency_adjustments">>,
                         FrequencyAdjustments(x, st.high_frequency_boost,
                                              st.low_frequency_reduction))
        Finish(x) == Ran(x, <<"adaptive_gain", "clip">>, {GainAndClip(x, st.adaptive_gain)})
    IN Each(Each(Each(Each(Each(Each(Each({w}, Suppress), Gate), Enhance), Compress),
                      Emphasize), Adjust), Finish)

(***************************************************************************)
(* AudioProcessor exercised on its own.                                    *)
(***************************************************************************)
SignalLengths ==
    {1, 2, COMPRESSION_WINDOW - 1, COMPRESSION_WINDOW, GATE_WINDOW - 1}
        \cup (GATE_WINDOW .. GATE_WINDOW + MaxExtra)

\* the sample ranges of the input waveforms (samples beyond 1.0 included)
SignalRanges == { <<0, 0>>, <<2000, 3000>>, <<-6000, 6000>>, <<-10000, 10000>>, <<-30000, 30000>> }

InputSignals == { Waveform(n, r[1], r[2]) : n \in SignalLengths, r \in SignalRanges }

\* AudioProcessingStrategy, processor.py:8-20, with numeric fields;
\* frequency_emphasis is whether a band dictionary is given
ProcessorStrategies ==
    [ noise_suppression_strength : {0, 60},
      speech_enhancement_level : {0, 50},
      dynamic_range_compression_ratio : {100, 300},
      frequency_emphasis : BOOLEAN,
      high_frequency_boost : {0, 200},
      low_frequency_reduction : {0},
      adaptive_gain : {-100, 30, 100, 200, 500},
      noise_gate_threshold : {-4000} ]

NoResult == [status |-> "none", len |-> 0, lo |-> 0, hi |-> 0, peak |-> 0, stages |-> <<>>]

\* _apply_compression, processor.py:160-166, for one sample: the gain before
\* the smoothing of line 169, as the exact fraction num/den (den > 0).
\* sample is in hundredths, ratio in hundredths.  gain = 1 unless
\* abs_signal > threshold; above it
\*   threshold / (abs_signal / (1/ratio - 1 + abs_signal))
\* where 1/ratio - 1 + abs_signal = inner / (100 * ratio); when that is 0 the
\* inner quotient is inf and the gain 0.0.
unsmoothed_gain(sample, ratio) ==
    LET threshold == COMPRESSION_THRESHOLD \div 100
        abs_signal == Abs(sample)
        above_threshold == abs_signal > threshold
        inner == 10000 - 100 * ratio + abs_signal * ratio
    IN IF above_threshold
       THEN [num |-> threshold * inner, den |-> 100 * ratio * abs_signal]
       ELSE [num |-> 1, den |-> 1]

\* samples (hundredths) and ratios (hundredths) the compressor is run on
CompressorSamples == { 5 * i - 150 : i \in 0..60 }
CompressorRatios == {150, 200, 300, 400, 800}

NoCompression == [status |-> "none", sample |-> 0, ratio |-> 100, gain |-> [num |-> 1, den |-> 1]]

CompressionInit ==
    compressed \in { [NoCompression EXCEPT !.status = "called", !.sample = x, !.ratio = r] :
                        x \in CompressorSamples, r \in CompressorRatios }

\* the gain line of _apply_compression(signal, ratio) on the sample
ApplyCompression ==
    /\ compressed.status = "called"
    /\ compressed' = [compressed EXCEPT !.status = "computed",
                                        !.gain = unsmoothed_gain(compressed.sample,
                                                                 compressed.ratio)]
    /\ UNCHANGED <<signal, proc_strategy, processed>>

AudioInit ==
    /\ signal \in InputSignals
    /\ proc_strategy \in ProcessorStrategies
    /\ processed = NoResult
    /\ compressed = NoCompression

\* AudioProcessor.apply_strategy(signal, strategy)
ApplyStrategy ==
    /\ processed = NoResult
    /\ processed' \in apply_strategy(signal, proc_strategy)
    /\ UNCHANGED <<signal, proc_strategy, compressed>>

AudioNext == ApplyStrategy

(***************************************************************************)
(* DecisionEngine.                                                         *)
(***************************************************************************)
\* DecisionEngine.MIN_ACTION_DURATION_SECONDS
MIN_ACTION_DURATION_SECONDS == 10
\* _record_decision trims the history once it is longer than this ...
HISTORY_HIGH_WATER == 10000
\* ... to this many of its latest entries
HISTORY_RETAIN == 5000

\* decisions appended to the history in one run of the model
MaxDecisions == 2

\* the two kinds of object callers pass as `features`: the dataclass the
\* extractor returns (attributes, no .get) and a plain dict (.get, no
\* attributes)
FeatureKinds == {"AudioFeatureSet", "dict"}

\* an entry of decision_history: a Decision object (shape "Decision",
\* decision_engine.py:35-45) or the dict _record_decision builds (shape
\* "record", decision_engine.py:507-514); the fields a shape lacks are blank
DecisionObject(primary_action, confidence, rationale, duration_seconds) ==
    [shape |-> "Decision", strategy |-> primary_action, confidence |-> confidence,
     rationale |-> rationale, duration_seconds |-> duration_seconds,
     is_reversible |-> TRUE, feedback |-> "none"]

RecordEntry(decision, feedback) ==
    [shape |-> "record", strategy |-> decision, confidence |-> 0,
     rationale |-> Str(<<>>), duration_seconds |-> 0, is_reversible |-> FALSE,
     feedback |-> feedback]

NoEntry ==
    [shape |-> "none", strategy |-> EmptyDict, confidence |-> 0,
     rationale |-> Str(<<>>), duration_seconds |-> 0, is_reversible |-> FALSE,
     feedback |-> "none"]

\* _record_decision, decision_engine.py:515-519: append, then trim
record_decision(history, entry) ==
    LET h == Append(history, entry)
    IN IF Len(h) > HISTORY_HIGH_WATER
       THEN SubSeq(h, Len(h) - HISTORY_RETAIN + 1, Len(h))
       ELSE h

\* what the advisor call came to: a dictionary, or an exception
Answer(d) == [outcome |-> "returned", value |-> d]

AdvisorRaised == [outcome |-> "raised", value |-> EmptyDict]

\* the answers of the advisor behind _get_llm_decision
AdvisorAnswers ==
    { Answer(mock_decision),
      Answer(Put(mock_decision, "adaptive_gain", Num(500))),
      Answer(FullStrategy),
      Answer(Put(FullStrategy, "adaptive_gain", Num(500))),
      Answer(Put(FullStrategy, "noise_suppression_strength", Num(150))),
      Answer(Put(FullStrategy, "rationale", Str(T_test_waveform_rationale))),
      Answer(Put(FullStrategy, "noise_suppression_strength", Str(T_high))),
      AdvisorRaised }

\* answers that are valid but for the duration they propose: below the
\* minimum and above the maximum
DurationAnswers ==
    { Answer(Put(FullStrategy, "duration_seconds", Num(5))),
      Answer(Put(FullStrategy, "duration_seconds", Num(5000))) }

\* the answers met when the engine is called on its own
EngineAnswers == AdvisorAnswers \cup DurationAnswers

\* no ObservationContext was handed to the call
NoObservation ==
    [acoustic_scene |-> "none", speech_confidence |-> 0, listening_intent |-> "none"]

\* the result of one engine call: how it ended, whether the advisor was
\* asked and failed ("not_asked", "answered", "failed"), the advisor's
\* candidate, whether validate_strategy rejected it, the strategy and
\* Decision returned, the SafetyCheck, and the history the call leaves
EngineResult(outcome, error, candidate, rejected, returned, decision, check, history) ==
    [outcome |-> outcome, error |-> error,
     advisor |-> CASE error = "AdvisorError" -> "failed"
                   [] candidate = EmptyDict -> "not_asked"
                   [] OTHER -> "answered",
     candidate |-> candidate,
     rejected |-> rejected, returned |-> returned, decision |-> decision,
     check |-> check, history |-> history,
     \* the ObservationContext handed to _reason, when it was called on its own
     observation |-> NoObservation]

EngineRaised(error, candidate, check, history) ==
    EngineResult("raised", error, candidate, ~check.is_safe /\ check # NoCheck /\ ~check.raised,
                 EmptyDict, NoEntry, check, history)

\* the body shared by decide_strategy (decision_engine.py:406-425) and
\* refine_strategy (decision_engine.py:446-467): build the prompt, ask the
\* advisor, validate, clamp a rejected candidate, record, return.  No step
\* is inside a try block: an exception ends the call.
validated_decision(prompt_raises, record_raises, answer, enable_safety, feedback, history) ==
    IF prompt_raises
    THEN EngineRaised("AttributeError", EmptyDict, NoCheck, history)
    ELSE IF answer.outcome = "raised"
    THEN EngineRaised("AdvisorError", EmptyDict, NoCheck, history)
    ELSE LET candidate == answer.value
             check == IF enable_safety THEN validate_strategy(candidate) ELSE NoCheck
             rejected == enable_safety /\ ~check.is_safe
         IN IF check.raised
            THEN EngineRaised("ValueError", candidate, check, history)
            ELSE IF rejected /\ apply_safety_bounds_raises(candidate)
            THEN EngineRaised("ValueError", candidate, check, history)
            ELSE LET decision == IF rejected THEN apply_safety_bounds(candidate)
                                 ELSE candidate
                 IN IF record_raises
                    THEN EngineRaised("AttributeError", candidate, check, history)
                    ELSE EngineResult("returned", "none", candidate, rejected, decision,
                                      RecordEntry(decision, feedback), check,
                                      record_decision(history, RecordEntry(decision, feedback)))

\* DecisionEngine.decide_strategy as bound in the class (the definition at
\* decision_engine.py:391-425, which replaces the one at 83-128).  The prompt
\* reads features.get(...) (prompts.py:247-251) and _record_decision reads
\* features.timestamp (decision_engine.py:508).
decide_strategy(features, answer, enable_safety, history) ==
    validated_decision(features = "AudioFeatureSet", features = "dict", answer,
                       enable_safety, "none", history)

\* DecisionEngine.refine_strategy, decision_engine.py:427-467.  The prompt
\* reads features.to_llm_context() (prompts.py:302).
refine_strategy(features, answer, enable_safety, user_feedback, history) ==
    validated_decision(features = "dict", features = "dict", answer,
                       enable_safety, user_feedback, history)

(***************************************************************************)
(* The Observe-Reason-Act cycle, decision_engine.py:83-326.  The class     *)
(* body later rebinds the name decide_strategy (line 391); the cycle is    *)
(* modelled as the method the source defines at line 83.                   *)
(***************************************************************************)
\* what _observe reads for the confidence: features.get('acoustic_scene'),
\* features.get('speech_confidence') and user_profile.get('listening_intent')
Observations ==
    { [acoustic_scene |-> "unknown", speech_confidence |-> 35, listening_intent |-> "unknown"],
      [acoustic_scene |-> "unknown", speech_confidence |-> 35,
       listening_intent |-> "conversation"],
      [acoustic_scene |-> "restaurant", speech_confidence |-> 65,
       listening_intent |-> "conversation"] }

\* DecisionEngine._call_llm_reasoning, decision_engine.py:249-259
oral_mock ==
    [k \in {"strategy_name", "noise_suppression_strength", "speech_enhancement_strength",
            "compression_ratio", "high_freq_boost_db", "frequency_profile", "rationale",
            "duration_seconds"} |->
        CASE k = "strategy_name" -> Str(T_moderate_boost)
          [] k = "noise_suppression_strength" -> Num(65)
          [] k = "speech_enhancement_strength" -> Num(40)
          [] k = "compression_ratio" -> Num(350)
          [] k = "high_freq_boost_db" -> Num(200)
          [] k = "frequency_profile" -> Str(T_speech_optimized)
          [] k = "rationale" -> Str(T_oral_mock_rationale)
          [] k = "duration_seconds" -> Num(30)]

\* the answers of the advisor behind _call_llm_reasoning
OralAnswers ==
    { Answer(oral_mock),
      Answer(ValidStrategy),
      Answer(Put(oral_mock, "duration_seconds", Num(5))),
      Answer(Put(oral_mock, "duration_seconds", Num(5000))),
      Answer(Put(oral_mock, "noise_suppression_strength", Num(150))),
      Answer(Put(oral_mock, "rationale", Str(T_test_waveform_rationale))),
      Answer(Put(oral_mock, "noise_suppression_strength", Str(T_high))),
      AdvisorRaised }

\* the float() conversions of _parse_strategy_recommendation raise
parse_raises(llm_output) ==
    \/ FloatRaises(Get(llm_output, "noise_suppression_strength", Num(50)))
    \/ FloatRaises(Get(llm_output, "speech_enhancement_strength", Num(0)))
    \/ FloatRaises(Get(llm_output, "compression_ratio", Num(100)))
    \/ FloatRaises(Get(llm_output, "high_freq_boost_db", Num(0)))

\* DecisionEngine._parse_strategy_recommendation, decision_engine.py:261-270
parse_strategy_recommendation(llm_output) ==
    [k \in {"strategy_name", "noise_suppression_strength", "speech_enhancement_strength",
            "compression_ratio", "high_freq_boost_db", "frequency_profile"} |->
        CASE k = "strategy_name" -> Get(llm_output, k, Str(T_neutral))
          [] k = "noise_suppression_strength" -> Num(PyFloat(Get(llm_output, k, Num(50))))
          [] k = "speech_enhancement_strength" -> Num(PyFloat(Get(llm_output, k, Num(0))))
          [] k = "compression_ratio" -> Num(PyFloat(Get(llm_output, k, Num(100))))
          [] k = "high_freq_boost_db" -> Num(PyFloat(Get(llm_output, k, Num(0))))
          [] k = "frequency_profile" -> Get(llm_output, k, Str(T_neutral))]

\* the confidence as adjusted for intent and scene, with no final clamp
assess_without_clamp(observation) ==
    LET base == observation.speech_confidence
        lifted == IF observation.listening_intent \in {"conversation", "speech_recovery"}
                  THEN Min(100, base + 10) ELSE base
    IN IF observation.acoustic_scene = "unknown" THEN Max(40, lifted - 20) ELSE lifted

\* DecisionEngine._assess_confidence, decision_engine.py:286-296
assess_confidence(observation) ==
    LET base == observation.speech_confidence
        lifted == IF observation.listening_intent \in {"conversation", "speech_recovery"}
                  THEN Min(100, base + 10) ELSE base
        lowered == IF observation.acoustic_scene = "unknown"
                   THEN Max(40, lifted - 20) ELSE lifted
    IN Min(100, Max(30, lowered))

\* DecisionEngine._fallback_conservative_decision, decision_engine.py:298-326
fallback_conservative_decision ==
    DecisionObject(
        [k \in {"strategy_name", "noise_suppression_strength", "speech_enhancement_strength",
                "compression_ratio", "high_freq_boost_db", "frequency_profile"} |->
            CASE k = "strategy_name" -> Str(T_minimal_intervention_monitoring)
              [] k = "noise_suppression_strength" -> Num(30)
              [] k = "speech_enhancement_strength" -> Num(0)
              [] k = "compression_ratio" -> Num(100)
              [] k = "high_freq_boost_db" -> Num(0)
              [] k = "frequency_profile" -> Str(T_neutral)],
        60, Str(T_fallback_rationale), MIN_ACTION_DURATION_SECONDS)

\* DecisionEngine._reason, decision_engine.py:194-234, once the advisor has
\* answered: the Decision it builds
reason(observation, reasoning_output) ==
    DecisionObject(parse_strategy_recommendation(reasoning_output),
                   assess_confidence(observation),
                   Get(reasoning_output, "rationale", Str(T_default_rationale)),
                   Max(MIN_ACTION_DURATION_SECONDS,
                       PyInt(Get(reasoning_output, "duration_seconds", Num(30)))))

\* _reason raises: a float() of _parse_strategy_recommendation, or
\* max(10, duration) on a non-number
reason_raises(reasoning_output) ==
    \/ parse_raises(reasoning_output)
    \/ Get(reasoning_output, "duration_seconds", Num(30)).t = "str"

\* DecisionEngine._reason(observation, user_profile) called on its own, as
\* test_oral_loop.py:66 does: the Decision of the Reason phase, before any
\* validation
reason_phase(observation, answer, history) ==
    IF answer.outcome = "raised"
    THEN EngineRaised("AdvisorError", EmptyDict, NoCheck, history)
    ELSE IF reason_raises(answer.value)
    THEN EngineRaised("ValueError", answer.value, NoCheck, history)
    ELSE LET decision == reason(observation, answer.value)
         IN [EngineResult("returned", "none", decision.strategy, FALSE, decision.strategy,
                          decision, NoCheck, history)
                EXCEPT !.observation = observation]

\* the Observe-Reason-Act cycle, decision_engine.py:106-128.  _observe reads
\* features.get(...) (decision_engine.py:145-150).
oral_decide_strategy(features, observation, answer, history) ==
    IF features = "AudioFeatureSet"
    THEN EngineRaised("AttributeError", EmptyDict, NoCheck, history)
    ELSE IF answer.outcome = "raised"
    THEN EngineRaised("AdvisorError", EmptyDict, NoCheck, history)
    ELSE IF reason_raises(answer.value)
    THEN EngineRaised("ValueError", answer.value, NoCheck, history)
    ELSE LET candidate == reason(observation, answer.value)
             first_check == validate_strategy(candidate.strategy)
         IN IF first_check.raised
            THEN EngineRaised("ValueError", candidate.strategy, first_check, history)
            ELSE LET decision == IF ~first_check.is_safe
                                 THEN fallback_conservative_decision ELSE candidate
                     safety_check_out == IF ~first_check.is_safe
                                         THEN validate_strategy(decision.strategy)
                                         ELSE first_check
                 IN EngineResult("returned", "none", candidate.strategy,
                                 ~first_check.is_safe, decision.strategy, decision,
                                 safety_check_out, Append(history, decision))

(***************************************************************************)
(* HearingAidController.  Time is counted in ticks of half a second.       *)
(***************************************************************************)
\* decision_interval = 1.0 s, in ticks
DECISION_INTERVAL == 2
\* last_decision_time = None
NoTime == -1

\* ticks of the clock in one run of the model
MaxTime == 2

\* AudioProcessingStrategy as the controller holds it: the values are kept
\* as the dictionary gave them
AudioProcessingStrategy(ns, sel, drc, fe, hfb, lfr, gain, gate, explanation) ==
    [some |-> TRUE, noise_suppression_strength |-> ns, speech_enhancement_level |-> sel,
     dynamic_range_compression_ratio |-> drc, frequency_emphasis |-> fe,
     high_frequency_boost |-> hfb, low_frequency_reduction |-> lfr,
     adaptive_gain |-> gain, noise_gate_threshold |-> gate, explanation |-> explanation]

\* current_strategy = None
NoStrategy ==
    [AudioProcessingStrategy(Num(0), Num(0), Num(0), Bool(FALSE), Num(0), Num(0), Num(0),
                             Num(0), Str(<<>>)) EXCEPT !.some = FALSE]

\* HearingAidController._dict_to_strategy, controller.py:222-234
dict_to_strategy(strategy_dict) ==
    AudioProcessingStrategy(
        Get(strategy_dict, "noise_suppression_strength", Num(50)),
        Get(strategy_dict, "speech_enhancement_level", Num(50)),
        Get(strategy_dict, "dynamic_range_compression_ratio", Num(100)),
        Get(strategy_dict, "frequency_emphasis", Bool(FALSE)),
        Get(strategy_dict, "high_frequency_boost", Num(0)),
        Get(strategy_dict, "low_frequency_reduction", Num(0)),
        Get(strategy_dict, "adaptive_gain", Num(100)),
        Get(strategy_dict, "noise_gate_threshold", Num(-4000)),
        Get(strategy_dict, "rationale", Str(<<>>)))

\* the "quiet_office" preset, strategies.py:41-54
quiet_office ==
    AudioProcessingStrategy(Num(30), Num(30), Num(200), Bool(FALSE), Num(100), Num(-200),
                            Num(100), Num(-4500), Str(<<>>))

\* the "silence" preset, strategies.py:27-40
silence ==
    AudioProcessingStrategy(Num(10), Num(0), Num(100), Bool(FALSE), Num(0), Num(0),
                            Num(100), Num(-6000), Str(<<>>))

\* names handed to select_strategy_preset: two of the library, one unknown
T_silence == <<"s", "i", "l", "e", "n", "c", "e">>
T_quiet_office == <<"q", "u", "i", "e", "t", "_", "o", "f", "f", "i", "c", "e">>
T_party == <<"p", "a", "r", "t", "y">>
PresetNames == {T_silence, T_quiet_office, T_party}

\* ProcessingStrategyLibrary.get_strategy, strategies.py:138-148: the
\* preset's strategy, or None
get_strategy(name) ==
    CASE name = T_silence -> silence
      [] name = T_quiet_office -> quiet_office
      [] OTHER -> NoStrategy

\* a strategy that takes the default's place whatever is in effect
reset_to_default(current) == quiet_office

\* process_audio when no decision is made, controller.py:101-103: the
\* strategy in effect stays, and the default is taken when there is none
standing_strategy(current) == IF ~current.some THEN quiet_office ELSE current

NumericFields ==
    { "noise_suppression_strength", "speech_enhancement_level",
      "dynamic_range_compression_ratio", "high_frequency_boost",
      "low_frequency_reduction", "adaptive_gain", "noise_gate_threshold" }

\* apply_strategy compares and multiplies the fields as numbers: a string
\* raises TypeError
processor_args_raise(st) == \E f \in NumericFields : st[f].t = "str"

\* the strategy as apply_strategy reads it
processor_args(st) ==
    [ noise_suppression_strength |-> PyFloat(st.noise_suppression_strength),
      speech_enhancement_level |-> PyFloat(st.speech_enhancement_level),
      dynamic_range_compression_ratio |-> PyFloat(st.dynamic_range_compression_ratio),
      frequency_emphasis |-> Truthy(st.frequency_emphasis),
      high_frequency_boost |-> PyFloat(st.high_frequency_boost),
      low_frequency_reduction |-> PyFloat(st.low_frequency_reduction),
      adaptive_gain |-> PyFloat(st.adaptive_gain),
      noise_gate_threshold |-> PyFloat(st.noise_gate_threshold) ]

\* HearingAidController._should_make_decision, controller.py:214-220
should_make_decision(last, t) == last = NoTime \/ t - last >= DECISION_INTERVAL

\* the frames handed to the controller: one shorter than the smoothing
\* windows, one longer
ControllerFrames ==
    { Waveform(COMPRESSION_WINDOW, -6000, 6000), Waveform(GATE_WINDOW + 1, -6000, 6000) }

NoEngineResult ==
    EngineResult("none", "none", EmptyDict, FALSE, EmptyDict, NoEntry, NoCheck, <<>>)

\* what the record of a call keeps of a waveform: whether there is one, and
\* its length
Outline(w) == [status |-> w.status, len |-> w.len]

\* what integrate_feedback or get_decision_summary reported: the strategy
\* label read from the latest decision and the signal computed for it, or
\* the fields of the summary (averages in hundredths)
NoReport ==
    [strategy_name |-> Str(<<>>), effectiveness |-> 0, decisions_recorded |-> 0,
     recent_decisions |-> 0, avg_noise_suppression |-> 0, avg_speech_enhancement |-> 0,
     avg_confidence |-> 0]

\* the record of a call: the operation, how it ended, what the engine did in
\* it (without the history), the status the controller reported, the
\* strategy handed to AudioProcessor.apply_strategy and the audio returned,
\* and what a Learn-phase or summary call reported
Call(op, outcome, error, engine, status, handed, audio) ==
    [op |-> op, outcome |-> outcome, error |-> error,
     engine |-> [engine EXCEPT !.history = <<>>],
     status |-> status, handed |-> handed, audio |-> Outline(audio),
     report |-> NoReport]

NoCall == Call("none", "none", "none", NoEngineResult, "none", NoStrategy, NoResult)

\* the controller has not called the engine yet
NoEngineCalls == [at |-> NoTime, gap |-> NoTime, forced |-> FALSE]

\* the controller calls the engine at time t (controller.py:95 and 146)
EngineInvoked(calls, t, forced) ==
    [at |-> t, gap |-> IF calls.at = NoTime THEN NoTime ELSE t - calls.at, forced |-> forced]

EngineInit ==
    /\ decision_history = <<>>
    /\ engine_last_decision_time = NoTime
    /\ current_strategy = NoStrategy
    /\ last_decision_time = NoTime
    /\ processing_enabled = TRUE
    /\ now = 0
    /\ last_call = NoCall
    /\ engine_calls = NoEngineCalls

\* the clock advances
Tick ==
    /\ now < MaxTime
    /\ now' = now + 1
    /\ UNCHANGED <<decision_history, engine_last_decision_time, current_strategy,
                   last_decision_time, processing_enabled, last_call, engine_calls>>

\* the end of process_audio and process_audio_with_feedback: the strategy is
\* handed to AudioProcessor.apply_strategy with the frame (controller.py:106
\* and 157)
Processed(op, engine, frame, st) ==
    IF processor_args_raise(st)
    THEN { Call(op, "raised", "TypeError", engine, "none", st, Raised) }
    ELSE { IF out.status = "raised"
           THEN Call(op, "raised", "ValueError", engine, "none", st, out)
           ELSE Call(op, "returned", "none", engine, "success", st, out) :
           out \in apply_strategy(frame, processor_args(st)) }

\* HearingAidController.process_audio, controller.py:60-118
ProcessAudio ==
    \E frame \in ControllerFrames, use_llm_decision \in BOOLEAN, force_decision \in BOOLEAN :
        IF ~processing_enabled
        THEN /\ last_call' = Call("process_audio", "returned", "none", NoEngineResult,
                                  "disabled", NoStrategy, frame)
             /\ UNCHANGED <<decision_history, engine_last_decision_time, current_strategy,
                            last_decision_time, processing_enabled, now, engine_calls>>
        ELSE LET should_decide == force_decision \/ should_make_decision(last_decision_time, now)
                 deciding == should_decide /\ use_llm_decision
             IN \E answer \in IF deciding THEN AdvisorAnswers ELSE {AdvisorRaised} :
                LET r == IF deciding
                         THEN decide_strategy("AudioFeatureSet", answer, TRUE, decision_history)
                         ELSE NoEngineResult
                    calls == IF deciding
                             THEN EngineInvoked(engine_calls, now, force_decision)
                             ELSE engine_calls
                IN
                IF deciding /\ r.outcome = "raised"
                THEN /\ last_call' = Call("process_audio", "raised", r.error, r, "none",
                                          NoStrategy, NoResult)
                     /\ engine_calls' = calls
                     /\ UNCHANGED <<decision_history, engine_last_decision_time,
                                    current_strategy, last_decision_time,
                                    processing_enabled, now>>
                ELSE LET st == IF deciding THEN dict_to_strategy(r.returned)
                               ELSE standing_strategy(current_strategy)
                     IN /\ Len(decision_history) < MaxDecisions \/ ~deciding
                        /\ decision_history' = IF deciding THEN r.history ELSE decision_history
                        /\ current_strategy' = st
                        /\ last_decision_time' = IF deciding THEN now ELSE last_decision_time
                        /\ last_call' \in Processed("process_audio", r, frame, st)
                        /\ engine_calls' = calls
                        /\ UNCHANGED <<engine_last_decision_time, processing_enabled, now>>

\* HearingAidController.process_audio_with_feedback, controller.py:120-168
ProcessAudioWithFeedback ==
    \E frame \in ControllerFrames, answer \in AdvisorAnswers :
        LET r == refine_strategy("AudioFeatureSet", answer, TRUE, "too_noisy", decision_history)
        IN IF r.outcome = "raised"
           THEN /\ last_call' = Call("process_audio_with_feedback", "raised", r.error, r,
                                     "none", NoStrategy, NoResult)
                /\ engine_calls' = EngineInvoked(engine_calls, now, FALSE)
                /\ UNCHANGED <<decision_history, engine_last_decision_time, current_strategy,
                               last_decision_time, processing_enabled, now>>
           ELSE /\ Len(decision_history) < MaxDecisions
                /\ decision_history' = r.history
                /\ current_strategy' = dict_to_strategy(r.returned)
                /\ last_decision_time' = now
                /\ last_call' \in Processed("process_audio_with_feedback", r, frame,
                                            dict_to_strategy(r.returned))
                /\ engine_calls' = EngineInvoked(engine_calls, now, FALSE)
                /\ UNCHANGED <<engine_last_decision_time, processing_enabled, now>>

\* HearingAidController.select_strategy_preset, controller.py:175-192; the
\* call record keeps the name asked for, the value returned (as status) and
\* the preset found
SelectStrategyPreset ==
    \E preset_name \in PresetNames :
        LET preset == get_strategy(preset_name)
        IN /\ current_strategy' = IF preset.some THEN preset ELSE current_strategy
           /\ last_call' =
                [Call("select_strategy_preset", "returned", "none", NoEngineResult,
                      IF preset.some THEN "True" ELSE "False", preset, NoResult)
                    EXCEPT !.report = [NoReport EXCEPT !.strategy_name = Str(preset_name)]]
           /\ UNCHANGED <<decision_history, engine_last_decision_time, last_decision_time,
                          processing_enabled, now, engine_calls>>

\* HearingAidController.enable_processing, controller.py:194-197
EnableProcessing ==
    /\ processing_enabled' = TRUE
    /\ UNCHANGED <<decision_history, engine_last_decision_time, current_strategy,
                   last_decision_time, now, last_call, engine_calls>>

\* HearingAidController.disable_processing, controller.py:199-202
DisableProcessing ==
    /\ processing_enabled' = FALSE
    /\ UNCHANGED <<decision_history, engine_last_decision_time, current_strategy,
                   last_decision_time, now, last_call, engine_calls>>

\* a call of the engine's own: how it ended and what it left in the history
EngineCall(op, r) ==
    /\ r.outcome = "returned" => Len(decision_history) < MaxDecisions
    /\ decision_history' = r.history
    /\ last_call' = Call(op, r.outcome, r.error, r, "none", NoStrategy, NoResult)

\* DecisionEngine.decide_strategy(features, user_profile) called on the engine
DecideStrategy ==
    /\ \E features \in FeatureKinds, answer \in EngineAnswers :
          EngineCall("decide_strategy", decide_strategy(features, answer, TRUE, decision_history))
    /\ UNCHANGED <<engine_last_decision_time, current_strategy, last_decision_time,
                   processing_enabled, now, engine_calls>>

\* DecisionEngine.refine_strategy(...) called on the engine
RefineStrategy ==
    /\ \E features \in FeatureKinds, answer \in EngineAnswers :
          EngineCall("refine_strategy",
                     refine_strategy(features, answer, TRUE, "too_noisy", decision_history))
    /\ UNCHANGED <<engine_last_decision_time, current_strategy, last_decision_time,
                   processing_enabled, now, engine_calls>>

\* the Observe-Reason-Act cycle run on the engine, decision_engine.py:83-128
OralDecideStrategy ==
    /\ \E features \in FeatureKinds, observation \in Observations, answer \in OralAnswers :
          LET r == oral_decide_strategy(features, observation, answer, decision_history)
          IN /\ EngineCall("oral_decide_strategy", r)
             /\ engine_last_decision_time' =
                    IF r.outcome = "returned" THEN now ELSE engine_last_decision_time
    /\ UNCHANGED <<current_strategy, last_decision_time, processing_enabled, now,
                   engine_calls>>

\* DecisionEngine._reason called on the engine; it leaves the history alone
ReasonPhase ==
    /\ \E observation \in Observations, answer \in OralAnswers :
          LET r == reason_phase(observation, answer, decision_history)
          IN last_call' = Call("reason", r.outcome, r.error, r, "none", NoStrategy, NoResult)
    /\ UNCHANGED <<decision_history, engine_last_decision_time, current_strategy,
                   last_decision_time, processing_enabled, now, engine_calls>>

\* the observations handed to _assess_confidence on its own: speech
\* confidences from -0.5 to 1.5, inside and outside [0, 1]
ConfidenceObservations ==
    [acoustic_scene : {"unknown", "restaurant"},
     speech_confidence : {5 * i - 50 : i \in 0..40},
     listening_intent : {"conversation", "speech_recovery", "music", "unknown"}]

\* DecisionEngine._assess_confidence(observation, strategy) called on the
\* engine; the call record keeps the observation and the value returned
AssessConfidence ==
    /\ \E observation \in ConfidenceObservations :
          last_call' =
            Call("assess_confidence", "returned", "none",
                 [NoEngineResult EXCEPT
                    !.observation = observation,
                    !.decision = [NoEntry EXCEPT !.confidence = assess_confidence(observation)]],
                 "none", NoStrategy, NoResult)
    /\ UNCHANGED <<decision_history, engine_last_decision_time, current_strategy,
                   last_decision_time, processing_enabled, now, engine_calls>>

ControllerNext ==
    \/ Tick
    \/ ProcessAudio
    \/ ProcessAudioWithFeedback
    \/ EnableProcessing
    \/ DisableProcessing

EngineNext ==
    \/ Tick
    \/ DecideStrategy
    \/ RefineStrategy
    \/ OralDecideStrategy
    \/ ReasonPhase

(***************************************************************************)
(* process_audio called from several threads.  The method takes no lock    *)
(* and the controller holds none (controller.py:39-58): a thread may be    *)
(* preempted between any two statements.  A thread stands before the       *)
(* interval check ("checking"), before the engine call ("deciding"),       *)
(* before apply_strategy ("applying"), or outside the method ("idle").     *)
(***************************************************************************)
Threads == 1..NumThreads

ThreadAt(pc, use_llm_decision, force_decision, should_decide, outcome) ==
    [pc |-> pc, use_llm_decision |-> use_llm_decision, force_decision |-> force_decision,
     should_decide |-> should_decide, outcome |-> outcome]

IdleThread == ThreadAt("idle", FALSE, FALSE, FALSE, "none")

NoThreads == [t \in Threads |-> IdleThread]

\* controller.py:60-89: the call is entered; a disabled controller returns
\* at once
ThreadCall(t) ==
    /\ threads[t].pc = "idle"
    /\ \E use_llm_decision \in BOOLEAN, force_decision \in BOOLEAN :
          threads' = [threads EXCEPT ![t] =
              IF ~processing_enabled
              THEN ThreadAt("idle", use_llm_decision, force_decision, FALSE, "disabled")
              ELSE ThreadAt("checking", use_llm_decision, force_decision, FALSE, "none")]
    /\ UNCHANGED engine_vars

\* controller.py:92-93 and 101-103: the interval check against
\* last_decision_time, and the default strategy when no decision is made
ThreadCheck(t) ==
    /\ threads[t].pc = "checking"
    /\ LET should_decide ==
               threads[t].force_decision \/ should_make_decision(last_decision_time, now)
           deciding == should_decide /\ threads[t].use_llm_decision
       IN /\ threads' = [threads EXCEPT ![t] =
                 [@ EXCEPT !.pc = IF deciding THEN "deciding" ELSE "applying",
                           !.should_decide = should_decide]]
          /\ current_strategy' = IF ~deciding /\ ~current_strategy.some
                                 THEN quiet_office ELSE current_strategy
    /\ UNCHANGED <<decision_history, engine_last_decision_time, last_decision_time,
                   processing_enabled, now, last_call, engine_calls>>

\* controller.py:94-100: the engine is called; when it returns, the strategy
\* is stored and last_decision_time is set
ThreadDecide(t) ==
    /\ threads[t].pc = "deciding"
    /\ \E answer \in AdvisorAnswers :
          LET r == decide_strategy("AudioFeatureSet", answer, TRUE, decision_history)
          IN IF r.outcome = "raised"
             THEN /\ threads' = [threads EXCEPT ![t] = [@ EXCEPT !.pc = "idle",
                                                                 !.outcome = "raised"]]
                  /\ last_call' = Call("process_audio", "raised", r.error, r, "none",
                                       NoStrategy, NoResult)
                  /\ UNCHANGED <<decision_history, current_strategy, last_decision_time>>
             ELSE /\ Len(decision_history) < MaxDecisions
                  /\ threads' = [threads EXCEPT ![t] = [@ EXCEPT !.pc = "applying"]]
                  /\ decision_history' = r.history
                  /\ current_strategy' = dict_to_strategy(r.returned)
                  /\ last_decision_time' = now
                  /\ UNCHANGED last_call
    /\ engine_calls' = EngineInvoked(engine_calls, now, threads[t].force_decision)
    /\ UNCHANGED <<engine_last_decision_time, processing_enabled, now>>

\* controller.py:106-118: the current strategy is applied to the frame and
\* the call returns
ThreadApply(t) ==
    /\ threads[t].pc = "applying"
    /\ \E frame \in ControllerFrames :
          /\ last_call' \in Processed("process_audio", NoEngineResult, frame, current_strategy)
          /\ threads' = [threads EXCEPT ![t] =
                 [@ EXCEPT !.pc = "idle", !.outcome = last_call'.outcome]]
    /\ UNCHANGED <<decision_history, engine_last_decision_time, current_strategy,
                   last_decision_time, processing_enabled, now, engine_calls>>

ThreadNext ==
    \E t \in Threads :
        \/ ThreadCall(t)
        \/ ThreadCheck(t)
        \/ ThreadDecide(t)
        \/ ThreadApply(t)

(***************************************************************************)
(* The decision history of an engine that has run for long.  Only the      *)
(* length and the order of the history matter here: an entry is            *)
(* represented by its shape (a record written by _record_decision, or a    *)
(* Decision object appended by the Observe-Reason-Act cycle) and by its    *)
(* ordinal, the number of entries appended up to and including it.         *)
(***************************************************************************)
LoggedEntry(shape, ordinal) == [shape |-> shape, ordinal |-> ordinal]

\* the histories of an engine that recorded n decisions without a trim
LongHistories ==
    { [i \in 1..n |-> LoggedEntry("record", i)] :
        n \in {0} \cup ((HISTORY_HIGH_WATER - MaxOverflow)..HISTORY_HIGH_WATER) }

NextOrdinal ==
    IF decision_history = <<>> THEN 1
    ELSE decision_history[Len(decision_history)].ordinal + 1

\* the lengths explored: a fresh history, and one near the trimming length
HistoryRoom ==
    \/ Len(decision_history) < MaxDecisions
    \/ /\ Len(decision_history) >= HISTORY_HIGH_WATER - MaxOverflow
       /\ Len(decision_history) < HISTORY_HIGH_WATER + MaxOverflow

\* DecisionEngine._record_decision, decision_engine.py:499-519, as called by
\* decide_strategy (423) and refine_strategy (465)
RecordDecision ==
    /\ HistoryRoom
    /\ decision_history' =
           record_decision(decision_history, LoggedEntry("record", NextOrdinal))
    /\ UNCHANGED <<engine_last_decision_time, current_strategy, last_decision_time,
                   processing_enabled, now, last_call, engine_calls>>

\* the recording step of the Observe-Reason-Act cycle,
\* decision_engine.py:119-121
OralRecord ==
    /\ HistoryRoom
    /\ decision_history' = Append(decision_history, LoggedEntry("decision", NextOrdinal))
    /\ engine_last_decision_time' = now
    /\ UNCHANGED <<current_strategy, last_decision_time, processing_enabled, now,
                   last_call, engine_calls>>

(***************************************************************************)
(* The Learn phase.  An effectiveness signal is counted in ten-thousandths *)
(* (0.5 is 5000); asr_confidence_change and user_satisfaction are in       *)
(* hundredths like every number of a dictionary (0.15 is 15, a             *)
(* satisfaction of 85 is 8500).                                            *)
(***************************************************************************)
\* Python's None
None == [t |-> "none", n |-> 0, s |-> <<>>, b |-> FALSE]

\* the outcomes and satisfactions handed to the Learn phase
Outcomes ==
    { [k \in keys |-> IF k = "asr_confidence_change" THEN Num(change) ELSE Bool(override)] :
        keys \in SUBSET {"asr_confidence_change", "user_override"},
        change \in {-200, -100, -10, 15, 100, 200},
        override \in BOOLEAN }

Satisfactions == { None } \cup { Num(s) : s \in {0, 2500, 5000, 8500, 10000} }

\* effectiveness signal with the user override left out of the account
effectiveness_without_penalty(outcome, user_satisfaction) ==
    LET baseline == 5000
        objective == baseline + Get(outcome, "asr_confidence_change", Num(0)).n * 50
        subjective == IF user_satisfaction # None
                      THEN objective + ((user_satisfaction.n - 5000) * 60) \div 100
                      ELSE objective
    IN Max(-10000, Min(10000, subjective))

\* DecisionEngine._compute_effectiveness, decision_engine.py:355-380
compute_effectiveness(outcome, user_satisfaction) ==
    LET baseline == 5000
        objective == baseline + Get(outcome, "asr_confidence_change", Num(0)).n * 50
        subjective == IF user_satisfaction # None
                      THEN objective + ((user_satisfaction.n - 5000) * 60) \div 100
                      ELSE objective
        penalised == IF Truthy(Get(outcome, "user_override", Bool(FALSE)))
                     THEN subjective - 3000
                     ELSE subjective
    IN Max(-10000, Min(10000, penalised))

\* _compute_effectiveness has not been called
NoSignal == [outcome |-> EmptyDict, user_satisfaction |-> None, effectiveness |-> 0,
             called |-> FALSE]

\* DecisionEngine._compute_effectiveness(outcome, user_satisfaction) called
\* on the engine, as test_oral_loop.py:257 and 286 do
ComputeEffectiveness ==
    \E outcome \in Outcomes, user_satisfaction \in Satisfactions :
        learned' = [outcome |-> outcome, user_satisfaction |-> user_satisfaction,
                    effectiveness |-> compute_effectiveness(outcome, user_satisfaction),
                    called |-> TRUE]

\* the outcomes and satisfactions handed to integrate_feedback
FeedbackOutcomes ==
    { [asr_confidence_change |-> Num(15), user_override |-> Bool(FALSE)],
      [asr_confidence_change |-> Num(-10), user_override |-> Bool(TRUE)],
      EmptyDict }

FeedbackSatisfactions == { None, Num(2500), Num(9000) }

\* DecisionEngine._update_strategy_rankings, decision_engine.py:382-389: a
\* placeholder that writes a debug line and stores nothing
update_strategy_rankings(rankings, strategy_name, effectiveness) == rankings

\* the outcome of a Learn-phase or summary call: how it ended, the map it
\* leaves and what it reported
LearnResult(outcome, error, rankings, report) ==
    [outcome |-> outcome, error |-> error, rankings |-> rankings, report |-> report]

\* DecisionEngine.integrate_feedback, decision_engine.py:328-353.  The
\* latest entry is read as a Decision object (last_decision.primary_action,
\* line 348): the dict that _record_decision appends has no such attribute.
integrate_feedback(history, rankings, outcome, user_satisfaction) ==
    IF history = <<>>
    THEN LearnResult("returned", "none", rankings, NoReport)
    ELSE LET last_decision == history[Len(history)]
         IN IF last_decision.shape # "Decision"
            THEN LearnResult("raised", "AttributeError", rankings, NoReport)
            ELSE IF "strategy_name" \notin DOMAIN last_decision.strategy
            THEN LearnResult("raised", "KeyError", rankings, NoReport)
            ELSE LET strategy_name == last_decision.strategy["strategy_name"]
                     effectiveness_signal == compute_effectiveness(outcome, user_satisfaction)
                 IN LearnResult("returned", "none",
                                update_strategy_rankings(rankings, strategy_name,
                                                         effectiveness_signal),
                                [NoReport EXCEPT !.strategy_name = strategy_name,
                                                 !.effectiveness = effectiveness_signal])

\* sum(d['decision'].get(key, default) for d in recent)
RECURSIVE SumOver(_, _, _)
SumOver(recent, key, default) ==
    IF recent = <<>> THEN 0
    ELSE Get(Head(recent).strategy, key, Num(default)).n + SumOver(Tail(recent), key, default)

\* DecisionEngine.get_decision_summary, decision_engine.py:521-541.  Every
\* entry is read as the dict of _record_decision (d['decision'], line 529):
\* a Decision object cannot be subscripted.
get_decision_summary(history, rankings) ==
    IF history = <<>>
    THEN LearnResult("returned", "none", rankings, NoReport)
    ELSE LET recent == SubSeq(history, Max(1, Len(history) - 99), Len(history))
             Summed == {"noise_suppression_strength", "speech_enhancement_level", "confidence"}
         IN IF \E i \in 1..Len(recent) : recent[i].shape # "record"
            THEN LearnResult("raised", "TypeError", rankings, NoReport)
            ELSE IF \E i \in 1..Len(recent) : \E k \in Summed \cap DOMAIN recent[i].strategy :
                        recent[i].strategy[k].t = "str"
            THEN LearnResult("raised", "TypeError", rankings, NoReport)
            ELSE LearnResult("returned", "none", rankings,
                    [NoReport EXCEPT
                        !.decisions_recorded = Len(history),
                        !.recent_decisions = Len(recent),
                        !.avg_noise_suppression =
                            SumOver(recent, "noise_suppression_strength", 0) \div Len(recent),
                        !.avg_speech_enhancement =
                            SumOver(recent, "speech_enhancement_level", 0) \div Len(recent),
                        !.avg_confidence = SumOver(recent, "confidence", 50) \div Len(recent)])

\* a Learn-phase or summary call on the engine: how it ended and what it
\* left in the engine's learning state
LearnCall(op, r) ==
    /\ strategy_effectiveness_map' = r.rankings
    /\ last_call' = [Call(op, r.outcome, r.error, NoEngineResult, "none", NoStrategy, NoResult)
                        EXCEPT !.report = r.report]
    /\ UNCHANGED <<decision_history, engine_last_decision_time, current_strategy,
                   last_decision_time, processing_enabled, now, engine_calls>>

\* DecisionEngine.integrate_feedback(outcome, user_satisfaction)
IntegrateFeedback ==
    \E outcome \in FeedbackOutcomes, user_satisfaction \in FeedbackSatisfactions :
        LearnCall("integrate_feedback",
                  integrate_feedback(decision_history, strategy_effectiveness_map,
                                     outcome, user_satisfaction))

\* DecisionEngine.get_decision_summary()
GetDecisionSummary ==
    LearnCall("get_decision_summary",
              get_decision_summary(decision_history, strategy_effectiveness_map))

(***************************************************************************)
(* AudioFeatureExtractor.  A frame is described by what numpy computes     *)
(* from its samples: their number, whether they are all zero, finite, or   *)
(* hold a NaN, the level 20*log10(rms) in hundredths of a dB, the spectral *)
(* centroid and roll-off in Hz, the zero-crossing rate and the onset       *)
(* energy in hundredths.  A float is a record, so that NaN is a value:     *)
(* every comparison with NaN is false.                                     *)
(***************************************************************************)
Float(v) == [nan |-> FALSE, v |-> v]

NaN == [nan |-> TRUE, v |-> 0]

\* a < b on floats
Less(a, b) == ~a.nan /\ ~b.nan /\ a.v < b.v

\* Python's max(a, b) and min(a, b): a, unless b is greater (smaller)
PyMax(a, b) == IF Less(a, b) THEN b ELSE a

PyMin(a, b) == IF Less(b, a) THEN b ELSE a

\* 20*log10(1e-10), the level of the smallest rms _estimate_noise_level
\* admits (extractor.py:106), in hundredths of a dB
NOISE_FLOOR_DB == -20000

AudioFrame(n, kind, rms_db, centroid, zcr) ==
    [n |-> n, kind |-> kind, rms_db |-> rms_db, centroid |-> centroid,
     rolloff |-> Min(8000, 2 * centroid), zcr |-> zcr, onset |-> zcr]

FrameLevels == {-25000, -600, 2999, 3000, 3001, 6000, 6001}

FrameCentroids == {0, 400, 2000, 4000, 8000}

FrameCrossings == {0, 20, 50, 100}

\* the frames handed to extract_features: empty, all zero, holding NaN,
\* a single sample, and frames of 101 finite samples
Frames ==
    { AudioFrame(0, "empty", 0, 0, 0) }
        \cup { AudioFrame(n, kind, 0, 0, 0) : n \in {1, 101}, kind \in {"zero", "nan"} }
        \cup { AudioFrame(1, "finite", level, 0, 0) : level \in FrameLevels }
        \cup { AudioFrame(101, "finite", level, centroid, zcr) :
                  level \in FrameLevels, centroid \in FrameCentroids, zcr \in FrameCrossings }

\* np.fft.rfft raises ValueError on an array of no samples
\* (extractor.py:65 and 76)
rfft_raises(frame) == frame.n = 0

\* _compute_spectral_centroid, extractor.py:62-71: 0 unless the magnitudes
\* sum to more than 0, which they do not when they are all 0 or hold a NaN
compute_spectral_centroid(frame) ==
    IF frame.kind = "finite" THEN Float(frame.centroid) ELSE Float(0)

\* _compute_spectral_rolloff, extractor.py:73-87: freqs[0] = 0 for a zero
\* spectrum; no bin satisfies cumsum >= NaN
compute_spectral_rolloff(frame) ==
    IF frame.kind = "finite" THEN Float(frame.rolloff) ELSE Float(0)

\* _compute_zcr, extractor.py:89-92: the mean of an empty difference is NaN
compute_zcr(frame) ==
    CASE frame.n < 2 \/ frame.kind = "nan" -> NaN
      [] frame.kind = "zero" -> Float(0)
      [] OTHER -> Float(frame.zcr)

\* _compute_onset_strength, extractor.py:94-99
compute_onset_strength(frame) ==
    CASE frame.n < 2 \/ frame.kind = "nan" -> NaN
      [] frame.kind = "zero" -> Float(0)
      [] OTHER -> Float(frame.onset)

\* _estimate_noise_level, extractor.py:101-108: max(rms, 1e-10) keeps a NaN
\* rms, its first argument
estimate_noise_level(frame) ==
    LET rms_db == CASE frame.kind = "nan" -> NaN
                    \* an rms of 0 lies below every level
                    [] frame.kind = "zero" -> Float(NOISE_FLOOR_DB - 1)
                    [] OTHER -> Float(frame.rms_db)
    IN PyMax(rms_db, Float(NOISE_FLOOR_DB))

\* max(0, min(1, 1 - distance)), extractor.py:117-121, in hundredths
UnitScore(distance) ==
    LET score == IF distance.nan THEN NaN ELSE Float(100 - distance.v)
    IN PyMax(Float(0), PyMin(Float(100), score))

\* _estimate_speech_probability, extractor.py:110-123, in thousandths
estimate_speech_probability(frame) ==
    LET centroid == compute_spectral_centroid(frame)
        zcr == compute_zcr(frame)
        centroid_score == UnitScore(Float(Abs(centroid.v - 2000) \div 40))
        zcr_score == UnitScore(IF zcr.nan THEN NaN ELSE Float(Abs(zcr.v - 50)))
    IN Float((centroid_score.v + zcr_score.v) * 5)

\* _classify_noise, extractor.py:125-137
classify_noise(frame) ==
    LET spectral_centroid == compute_spectral_centroid(frame)
    IN CASE Less(spectral_centroid, Float(500)) -> "low_frequency"
         [] Less(spectral_centroid, Float(2000)) -> "mid_frequency"
         [] Less(spectral_centroid, Float(8000)) -> "high_frequency"
         [] OTHER -> "very_high_frequency"

\* a classifier that looks for speech before it looks for silence
classify_speech_first(frame) ==
    LET noise_level == estimate_noise_level(frame)
        speech_prob == estimate_speech_probability(frame)
    IN CASE Less(Float(700), speech_prob) -> "speech"
         [] Less(noise_level, Float(3000)) -> "silence"
         [] Less(Float(6000), noise_level) -> "loud_noise"
         [] OTHER -> "background_sound"

\* _classify_sound_event, extractor.py:139-151
classify_sound_event(frame) ==
    LET noise_level == estimate_noise_level(frame)
        speech_prob == estimate_speech_probability(frame)
    IN CASE Less(noise_level, Float(3000)) -> "silence"
         [] Less(Float(700), speech_prob) -> "speech"
         [] Less(Float(6000), noise_level) -> "loud_noise"
         [] OTHER -> "background_sound"

\* AudioFeatureSet as extract_features fills it; duration_ms in
\* ten-thousandths of a millisecond at 16 kHz
AudioFeatureSet(frame) ==
    [duration_ms |-> frame.n * 625,
     spectral_centroid |-> compute_spectral_centroid(frame),
     spectral_rolloff |-> compute_spectral_rolloff(frame),
     zero_crossing_rate |-> compute_zcr(frame),
     onset_strength |-> compute_onset_strength(frame),
     noise_level_db |-> estimate_noise_level(frame),
     speech_probability |-> estimate_speech_probability(frame),
     is_silence |-> Less(estimate_noise_level(frame), Float(3000)),
     is_speech_present |-> Less(Float(500), estimate_speech_probability(frame)),
     noise_type |-> classify_noise(frame),
     sound_event_class |-> classify_sound_event(frame)]

\* extract_features has not been called
NoExtraction ==
    [outcome |-> "none", error |-> "none", frame |-> AudioFrame(0, "empty", 0, 0, 0),
     features |-> AudioFeatureSet(AudioFrame(1, "zero", 0, 0, 0))]

\* AudioFeatureExtractor.extract_features, extractor.py:20-60
extract_features(frame) ==
    IF rfft_raises(frame)
    THEN [NoExtraction EXCEPT !.outcome = "raised", !.error = "ValueError", !.frame = frame]
    ELSE [outcome |-> "returned", error |-> "none", frame |-> frame,
          features |-> AudioFeatureSet(frame)]

ExtractFeatures ==
    \E frame \in Frames : extracted' = extract_features(frame)

(***************************************************************************)
(* Specifications.  Each exercises one component; the variables of the     *)
(* others stay at rest.                                                    *)
(***************************************************************************)
\* a fresh engine has learned nothing (decision_engine.py:80)
LearnIdle == strategy_effectiveness_map = EmptyDict

SafetyIdle ==
    /\ strategy = EmptyDict
    /\ edits = 0
    /\ safety_check = NoCheck
    /\ safe_strategy = NoBounds
    /\ rebounded = NoBounds

AudioIdle ==
    /\ signal = Waveform(1, 0, 0)
    /\ proc_strategy = processor_args(quiet_office)
    /\ processed = NoResult
    /\ compressed = NoCompression

\* HearingAidController with the engine and the processor it owns
Init == EngineInit /\ SafetyIdle /\ AudioIdle /\ threads = NoThreads /\ learned = NoSignal /\ LearnIdle /\ extracted = NoExtraction

Next == ControllerNext /\ UNCHANGED <<safety_vars, audio_vars, threads, learned, strategy_effectiveness_map, extracted>>

Spec == Init /\ [][Next]_vars

\* DecisionEngine called on its own
InitEngine == EngineInit /\ SafetyIdle /\ AudioIdle /\ threads = NoThreads /\ learned = NoSignal /\ LearnIdle /\ extracted = NoExtraction

NextEngine == EngineNext /\ UNCHANGED <<safety_vars, audio_vars, threads, learned, strategy_effectiveness_map, extracted>>

SpecEngine == InitEngine /\ [][NextEngine]_vars

\* SafetyValidator on its own
InitSafety == SafetyInit /\ EngineInit /\ AudioIdle /\ threads = NoThreads /\ learned = NoSignal /\ LearnIdle /\ extracted = NoExtraction

NextSafety == SafetyNext /\ UNCHANGED <<engine_vars, audio_vars, threads, learned, strategy_effectiveness_map, extracted>>

SpecSafety == InitSafety /\ [][NextSafety]_vars

\* AudioProcessor on its own
InitAudio == AudioInit /\ EngineInit /\ SafetyIdle /\ threads = NoThreads /\ learned = NoSignal /\ LearnIdle /\ extracted = NoExtraction

NextAudio == AudioNext /\ UNCHANGED <<engine_vars, safety_vars, threads, learned, strategy_effectiveness_map, extracted>>

SpecAudio == InitAudio /\ [][NextAudio]_vars

\* the gain computation of AudioProcessor._apply_compression on its own
InitCompression ==
    /\ CompressionInit
    /\ signal = Waveform(1, 0, 0)
    /\ proc_strategy = processor_args(quiet_office)
    /\ processed = NoResult
    /\ EngineInit /\ SafetyIdle /\ threads = NoThreads /\ learned = NoSignal /\ LearnIdle /\ extracted = NoExtraction

NextCompression ==
    ApplyCompression /\ UNCHANGED <<engine_vars, safety_vars, threads, learned, strategy_effectiveness_map, extracted>>

SpecCompression == InitCompression /\ [][NextCompression]_vars

\* HearingAidController.process_audio called from NumThreads threads
InitThreads == EngineInit /\ SafetyIdle /\ AudioIdle /\ threads = NoThreads /\ learned = NoSignal /\ LearnIdle /\ extracted = NoExtraction

NextThreads ==
    /\ \/ ThreadNext
       \/ Tick /\ UNCHANGED threads
       \/ EnableProcessing /\ UNCHANGED threads
       \/ DisableProcessing /\ UNCHANGED threads
    /\ UNCHANGED <<safety_vars, audio_vars, learned, strategy_effectiveness_map, extracted>>

SpecThreads == InitThreads /\ [][NextThreads]_vars

\* DecisionEngine's history, from a fresh engine or a long-running one
InitHistory ==
    /\ decision_history \in LongHistories
    /\ engine_last_decision_time = NoTime
    /\ current_strategy = NoStrategy
    /\ last_decision_time = NoTime
    /\ processing_enabled = TRUE
    /\ now = 0
    /\ last_call = NoCall
    /\ engine_calls = NoEngineCalls
    /\ SafetyIdle /\ AudioIdle /\ threads = NoThreads /\ learned = NoSignal /\ LearnIdle /\ extracted = NoExtraction

NextHistory ==
    /\ \/ Tick
       \/ RecordDecision
       \/ OralRecord
    /\ UNCHANGED <<safety_vars, audio_vars, threads, learned, strategy_effectiveness_map, extracted>>

SpecHistory == InitHistory /\ [][NextHistory]_vars

\* the Learn phase of DecisionEngine on its own
InitLearn == EngineInit /\ SafetyIdle /\ AudioIdle /\ threads = NoThreads /\ learned = NoSignal /\ LearnIdle /\ extracted = NoExtraction

NextLearn ==
    ComputeEffectiveness
        /\ UNCHANGED <<safety_vars, engine_vars, audio_vars, threads,
                       strategy_effectiveness_map, extracted>>

SpecLearn == InitLearn /\ [][NextLearn]_vars

\* HearingAidController with presets selected by hand, from a fresh
\* controller or from one that process_audio_with_feedback has just left
\* with a refined strategy and a decision time
InitPresets ==
    /\ \/ EngineInit
       \/ /\ \E answer \in AdvisorAnswers, frame \in ControllerFrames :
                LET r == refine_strategy("AudioFeatureSet", answer, TRUE, "too_noisy", <<>>)
                IN /\ r.outcome = "returned"
                   /\ decision_history = r.history
                   /\ current_strategy = dict_to_strategy(r.returned)
                   /\ last_call \in Processed("process_audio_with_feedback", r, frame,
                                              dict_to_strategy(r.returned))
          /\ last_decision_time = 0
          /\ engine_calls = EngineInvoked(NoEngineCalls, 0, FALSE)
          /\ engine_last_decision_time = NoTime
          /\ processing_enabled = TRUE
          /\ now = 0
    /\ SafetyIdle /\ AudioIdle /\ threads = NoThreads /\ learned = NoSignal /\ LearnIdle /\ extracted = NoExtraction

NextPresets ==
    /\ \/ Tick
       \/ ProcessAudio
       \/ SelectStrategyPreset
       \/ EnableProcessing
       \/ DisableProcessing
    /\ UNCHANGED <<safety_vars, audio_vars, threads, learned, strategy_effectiveness_map, extracted>>

SpecPresets == InitPresets /\ [][NextPresets]_vars

\* DecisionEngine._assess_confidence on its own
InitConfidence == EngineInit /\ SafetyIdle /\ AudioIdle /\ threads = NoThreads /\ learned = NoSignal /\ LearnIdle /\ extracted = NoExtraction

NextConfidence ==
    AssessConfidence
        /\ UNCHANGED <<safety_vars, audio_vars, threads, learned, strategy_effectiveness_map,
                       extracted>>

SpecConfidence == InitConfidence /\ [][NextConfidence]_vars

\* the engine's decision operations followed by its Learn phase and summary
InitFeedback == EngineInit /\ SafetyIdle /\ AudioIdle /\ threads = NoThreads /\ learned = NoSignal /\ LearnIdle /\ extracted = NoExtraction

NextFeedback ==
    /\ \/ (DecideStrategy \/ RefineStrategy \/ OralDecideStrategy)
             /\ UNCHANGED strategy_effectiveness_map
       \/ IntegrateFeedback
       \/ GetDecisionSummary
    /\ UNCHANGED <<safety_vars, audio_vars, threads, learned, extracted>>

SpecFeedback == InitFeedback /\ [][NextFeedback]_vars

\* AudioFeatureExtractor on its own
InitExtractor ==
    /\ EngineInit /\ SafetyIdle /\ AudioIdle /\ threads = NoThreads
    /\ learned = NoSignal /\ LearnIdle /\ extracted = NoExtraction

NextExtractor ==
    ExtractFeatures /\ UNCHANGED <<safety_vars, engine_vars, audio_vars, threads, learned,
                                    strategy_effectiveness_map>>

SpecExtractor == InitExtractor /\ [][NextExtractor]_vars

(***************************************************************************)
(* The documented range of each bounded parameter, under the name the      *)
(* validator reads it by and under the name the processor reads it by.     *)
(***************************************************************************)
BoundedKeys ==
    { "noise_suppression_strength", "speech_enhancement_strength", "compression_ratio",
      "high_freq_boost_db", "low_freq_reduction_db", "speech_enhancement_level",
      "dynamic_range_compression_ratio", "high_frequency_boost", "low_frequency_reduction",
      "adaptive_gain", "noise_gate_threshold" }

DocumentedRange(k) ==
    CASE k = "noise_suppression_strength" -> <<MIN_NOISE_SUPPRESSION, MAX_NOISE_SUPPRESSION>>
      [] k \in {"speech_enhancement_strength", "speech_enhancement_level"} ->
            <<MIN_SPEECH_ENHANCEMENT, MAX_SPEECH_ENHANCEMENT>>
      [] k \in {"compression_ratio", "dynamic_range_compression_ratio"} ->
            <<MIN_COMPRESSION_RATIO, MAX_COMPRESSION_RATIO>>
      [] k \in {"high_freq_boost_db", "high_frequency_boost"} ->
            <<MIN_HIGH_FREQ_BOOST, MAX_HIGH_FREQ_BOOST>>
      [] k \in {"low_freq_reduction_db", "low_frequency_reduction"} ->
            <<MIN_LOW_FREQ_REDUCTION, MAX_LOW_FREQ_REDUCTION>>
      [] k = "adaptive_gain" -> <<MIN_ADAPTIVE_GAIN, MAX_ADAPTIVE_GAIN>>
      [] k = "noise_gate_threshold" -> <<MIN_NOISE_GATE_THRESHOLD, MAX_NOISE_GATE_THRESHOLD>>

\* a value is a number inside the documented range of key k
WithinDocumentedRange(k, v) ==
    v.t = "num" /\ DocumentedRange(k)[1] <= v.n /\ v.n <= DocumentedRange(k)[2]

(***************************************************************************)
(* Properties.                                                             *)
(***************************************************************************)

\* C1: whatever the advisor returns, every bounded parameter of the strategy
\* the controller hands to AudioProcessor.apply_strategy after a decision or
\* a refinement (noise suppression, speech enhancement, compression ratio,
\* high-frequency boost, low-frequency reduction, adaptive gain, noise-gate
\* threshold) lies within its documented range.
C1_HandedStrategyWithinBounds ==
    (last_call.engine.outcome = "returned" /\ last_call.handed.some) =>
        \A f \in NumericFields : WithinDocumentedRange(f, last_call.handed[f])

\* C2: whenever the advisor's candidate fails validation in the
\* Observe-Reason-Act cycle, the decision the engine emits has
\* is_reversible = true and duration_seconds >= 10, and the SafetyCheck
\* returned for the fallback strategy has is_safe = true.
C2_FallbackDecisionPassesValidation ==
    (last_call.op = "oral_decide_strategy" /\ last_call.outcome = "returned"
        /\ last_call.engine.rejected) =>
        /\ last_call.engine.decision.is_reversible
        /\ last_call.engine.decision.duration_seconds >= MIN_ACTION_DURATION_SECONDS
        /\ last_call.engine.check.is_safe

\* C3: whenever validate_strategy rejects the advisor's candidate, the
\* engine returns and records the conservative fallback strategy, never the
\* candidate or a clamped version of it.
C3_RejectedCandidateReplacedByFallback ==
    (last_call.outcome = "returned" /\ last_call.engine.rejected) =>
        /\ last_call.engine.returned = fallback_conservative_decision.strategy
        /\ decision_history # <<>>
        /\ decision_history[Len(decision_history)].strategy
               = fallback_conservative_decision.strategy

\* C4: if the advisor call fails during a decision cycle, the engine still
\* completes the cycle and emits the conservative fallback strategy; the
\* failure does not reach the caller.
C4_AdvisorFailureFallsBack ==
    last_call.engine.advisor = "failed" =>
        /\ last_call.outcome = "returned"
        /\ last_call.engine.returned = fallback_conservative_decision.strategy

\* C5: for every input waveform of length >= 1 and every strategy,
\* apply_strategy returns a waveform with exactly as many samples as the
\* input.
C5_OutputLengthEqualsInputLength ==
    processed # NoResult =>
        /\ processed.status = "returned"
        /\ processed.len = signal.len

C7_IrreversibleReportedAsSuch ==
    (safety_check # NoCheck /\ "is_reversible" \in DOMAIN strategy
        /\ strategy["is_reversible"] = Bool(FALSE)) =>
        /\ ~safety_check.raised
        /\ ~safety_check.is_safe
        /\ \E i \in 1..Len(safety_check.violations) :
              safety_check.violations[i].kind = "reversible"

\* C8: validate_strategy rejects every strategy whose rationale contains a
\* prohibited substring in any letter case, with a violation that
\* identifies the term, whether or not the other fields are present and
\* within bounds.
C8_ProhibitedRationaleRejected ==
    (safety_check # NoCheck /\ "rationale" \in DOMAIN strategy
        /\ strategy["rationale"].t = "str") =>
        \A t \in 1..Len(prohibited_terms) :
            (\E v \in CaseVariants :
                Contains(strategy["rationale"].s, Cased(v, prohibited_terms[t]))) =>
                /\ ~safety_check.raised
                /\ ~safety_check.is_safe
                /\ \E i \in 1..Len(safety_check.violations) :
                      /\ safety_check.violations[i].kind = "prohibited"
                      /\ safety_check.violations[i].term = prohibited_terms[t]

\* C8 happens: a rationale with an upper-case prohibited term, every other
\* field as in a strategy that passes, was rejected
C8_UpperCaseTermRejected ==
    /\ safety_check # NoCheck
    /\ ~safety_check.is_safe
    /\ \E t \in 1..Len(prohibited_terms) :
          strategy = Put(ValidStrategy, "rationale",
                         Str(T_request_prefix \o Upper(prohibited_terms[t])
                                 \o T_request_suffix))

\* C9: with all other fields valid, validate_strategy accepts
\* noise_suppression_strength exactly on [0, 0.95] and
\* speech_enhancement_strength exactly on [0, 0.9]; a rejection carries a
\* violation naming the field.
C9_StrengthAcceptedOnClosedInterval ==
    safety_check # NoCheck =>
        \A f \in {"noise_suppression_strength", "speech_enhancement_strength"} :
            (/\ f \in DOMAIN strategy
             /\ strategy[f].t = "num"
             /\ \A k \in ValidatorKeys \ {f} :
                    k \in DOMAIN strategy /\ strategy[k] = ValidStrategy[k]) =>
                LET inside == WithinDocumentedRange(f, strategy[f])
                IN /\ ~safety_check.raised
                   /\ safety_check.is_safe <=> inside
                   /\ ~inside => \E i \in 1..Len(safety_check.violations) :
                                    /\ safety_check.violations[i].kind = "bounds"
                                    /\ safety_check.violations[i].field = f

\* C9 happens: noise suppression at exactly 0.95 was accepted
C9_UpperBoundAccepted ==
    /\ safety_check # NoCheck
    /\ safety_check.is_safe
    /\ strategy = Put(ValidStrategy, "noise_suppression_strength", Num(MAX_NOISE_SUPPRESSION))

\* C10: every numeric parameter of the dictionary apply_safety_bounds
\* returns lies within its documented bound, the parameters under the
\* processor's field names, adaptive_gain and noise_gate_threshold included.
C10_BoundedStrategyWithinBounds ==
    safe_strategy.outcome = "returned" =>
        \A k \in BoundedKeys \cap DOMAIN safe_strategy.strategy :
            WithinDocumentedRange(k, safe_strategy.strategy[k])

\* C11: apply_safety_bounds is idempotent: applied to the dictionary it
\* returned, it returns that dictionary again, whatever fields the first
\* input lacked or had out of range.
C11_ApplySafetyBoundsIdempotent ==
    rebounded # NoBounds =>
        /\ rebounded.outcome = "returned"
        /\ rebounded.strategy = safe_strategy.strategy
        /\ rebounded.corrections = <<>>

\* C11 happens: the first application clamped a field and added a missing
\* one, and the second application returned
C11_ReappliedAfterCorrection ==
    /\ rebounded.outcome = "returned"
    /\ safe_strategy.corrections # <<>>
    /\ DOMAIN safe_strategy.strategy # DOMAIN strategy

\* C12: over any sequence of controller calls, two calls of the engine made
\* by the controller are at least decision_interval (1 s) apart, unless the
\* later one was made by a call with force_decision = true.
C12_EngineInvokedOncePerInterval ==
    (engine_calls.gap # NoTime /\ engine_calls.gap < DECISION_INTERVAL) =>
        engine_calls.forced

\* C13: when unforced process_audio calls run concurrently on one
\* controller, decisions are serialized: at most one of the calls stands
\* between the interval check and the update of last_decision_time, having
\* found a new decision due.
C13_ConcurrentDecisionsSerialized ==
    \A t, u \in Threads :
        (/\ threads[t].pc = "deciding" /\ ~threads[t].force_decision
         /\ threads[u].pc = "deciding" /\ ~threads[u].force_decision) => t = u

\* C14: decision_history never holds more than 10,000 entries, whichever
\* path appended the last one: _record_decision or the recording step of
\* the Observe-Reason-Act cycle.
C14_HistoryNeverExceedsHighWater ==
    Len(decision_history) <= HISTORY_HIGH_WATER

\* C15: for an observation with acoustic scene "unknown" and speech
\* confidence 0.35, whatever the listening intent, the Decision of the Reason
\* phase has confidence below 0.6 and a strategy with
\* noise_suppression_strength <= 0.5 and speech_enhancement_strength <= 0.3.
C15_UncertainSceneReasonedConservatively ==
    (/\ last_call.op = "reason"
     /\ last_call.outcome = "returned"
     /\ last_call.engine.candidate = parse_strategy_recommendation(oral_mock)
     /\ last_call.engine.observation.acoustic_scene = "unknown"
     /\ last_call.engine.observation.speech_confidence = 35) =>
        /\ last_call.engine.decision.confidence < 60
        /\ last_call.engine.decision.strategy["noise_suppression_strength"].n <= 50
        /\ last_call.engine.decision.strategy["speech_enhancement_strength"].n <= 30

\* C16: _compute_effectiveness returns 0.5 + 0.5 * asr_confidence_change,
\* plus 0.3 * (user_satisfaction - 50) / 50 when a satisfaction is given,
\* minus 0.3 when the outcome reports a user override, clamped to [-1, 1].
\* The signal lies in [-1, 1]; it is above 0.5 for a change of +0.15 with
\* satisfaction 85 and no override, and below 0.5 for a change of -0.10
\* with satisfaction 25 and an override.
C16_EffectivenessSignal ==
    learned.called =>
        LET change == IF "asr_confidence_change" \in DOMAIN learned.outcome
                      THEN learned.outcome["asr_confidence_change"].n ELSE 0
            override == "user_override" \in DOMAIN learned.outcome
                            /\ learned.outcome["user_override"].b
            satisfaction == IF learned.user_satisfaction = None THEN 0
                            ELSE (3 * (learned.user_satisfaction.n - 5000)) \div 5
            sum == 5000 + 50 * change + satisfaction - (IF override THEN 3000 ELSE 0)
        IN /\ learned.effectiveness =
                  (IF sum > 10000 THEN 10000 ELSE IF sum < -10000 THEN -10000 ELSE sum)
           /\ learned.effectiveness >= -10000
           /\ learned.effectiveness <= 10000
           /\ (change = 15 /\ ~override /\ learned.user_satisfaction = Num(8500))
                  => learned.effectiveness > 5000
           /\ (change = -10 /\ override /\ learned.user_satisfaction = Num(2500))
                  => learned.effectiveness < 5000

\* C16 happens: the signal was computed for the negative outcome of the
\* tests, an override with a change of -0.10 and satisfaction 25
C16_NegativeOutcomeScored ==
    /\ learned.called
    /\ learned.outcome = [asr_confidence_change |-> Num(-10), user_override |-> Bool(TRUE)]
    /\ learned.user_satisfaction = Num(2500)
    /\ learned.effectiveness = 0

\* C17: in every AudioFeatureSet that extract_features returns,
\* is_speech_present holds exactly when speech_probability > 0.5, is_silence
\* exactly when noise_level_db < 30, and sound_event_class is "silence"
\* exactly when is_silence; for an all-zero frame the noise level is below
\* 30 dB, is_silence is true and the class is "silence".
C17_DerivedFlagsAgreeWithFeatures ==
    extracted.outcome = "returned" =>
        LET features == extracted.features
        IN /\ features.is_speech_present <=>
                  (~features.speech_probability.nan /\ features.speech_probability.v > 500)
           /\ features.is_silence <=>
                  (~features.noise_level_db.nan /\ features.noise_level_db.v < 3000)
           /\ (features.sound_event_class = "silence") <=> features.is_silence
           /\ extracted.frame.kind = "zero" =>
                  /\ ~features.noise_level_db.nan
                  /\ features.noise_level_db.v < 3000
                  /\ features.is_silence
                  /\ features.sound_event_class = "silence"

\* C17 happens: a quiet frame that scores as speech (probability above 0.7)
\* is returned as silence
C17_QuietSpeechLikeFrameIsSilence ==
    /\ extracted.outcome = "returned"
    /\ extracted.frame.kind = "finite"
    /\ extracted.features.speech_probability.v > 700
    /\ extracted.features.is_silence
    /\ extracted.features.sound_event_class = "silence"

\* C18: extract_features never raises: for an empty frame, an all-zero
\* frame and a frame holding a non-finite sample it returns an
\* AudioFeatureSet with zeroed spectral fields and the noise level at its
\* floor.
C18_ExtractFeaturesNeverRaises ==
    extracted.outcome # "none" =>
        /\ extracted.outcome = "returned"
        /\ extracted.frame.kind \in {"empty", "zero", "nan"} =>
              /\ extracted.features.spectral_centroid = Float(0)
              /\ extracted.features.spectral_rolloff = Float(0)
              /\ extracted.features.noise_level_db = Float(NOISE_FLOOR_DB)

\* C19: validate_strategy accepts, with is_safe true and no violation, a
\* strategy that supplies only the seven processor-style parameters, each
\* within its range.
C19_ProcessorStyleStrategyAccepted ==
    (/\ safety_check # NoCheck
     /\ DOMAIN strategy = NumericFields
     /\ \A k \in NumericFields : WithinDocumentedRange(k, strategy[k])) =>
        /\ safety_check.is_safe
        /\ safety_check.violations = <<>>

\* C20: in the Observe-Reason-Act cycle a candidate the advisor gave with
\* every parameter within bounds, an allowed frequency profile, a rationale
\* of at least 20 characters and a duration of at least 10 seconds passes
\* the Act-phase validation and is emitted as the primary action; the
\* fallback is not substituted for it.
C20_SafeCandidateEmitted ==
    (/\ last_call.op = "oral_decide_strategy"
     /\ last_call.outcome = "returned"
     /\ validate_strategy(ValidStrategy).is_safe
     /\ last_call.engine.candidate = parse_strategy_recommendation(ValidStrategy)) =>
        /\ ~last_call.engine.rejected
        /\ last_call.engine.returned = last_call.engine.candidate
        /\ last_call.engine.decision.strategy # fallback_conservative_decision.strategy

\* C21: validate_strategy checks every bounded numeric field of the strategy
\* (noise suppression, speech enhancement, compression ratio, high-frequency
\* boost, low-frequency reduction, adaptive gain, noise-gate threshold,
\* confidence) against its fixed range: for a dictionary that holds every
\* required field and no prohibited term, the violations hold exactly one
\* entry for each of these fields whose value is out of range, and none for
\* a field in range.
C21_OneViolationPerOutOfRangeField ==
    LET Checked == {"noise_suppression_strength", "speech_enhancement_strength",
                    "compression_ratio", "high_freq_boost_db", "low_freq_reduction_db",
                    "adaptive_gain", "noise_gate_threshold", "confidence"}
        Within(k, v) == IF k = "confidence" THEN v.t = "num" /\ 0 <= v.n /\ v.n <= 100
                        ELSE WithinDocumentedRange(k, v)
        Reported(k) == {i \in 1..Len(safety_check.violations) :
                            safety_check.violations[i].field = k}
    IN (/\ safety_check # NoCheck
        /\ ~safety_check.raised
        /\ validate_strategy_early(strategy) = <<>>)
       => \A k \in Checked \cap DOMAIN strategy :
             Cardinality(Reported(k)) = IF Within(k, strategy[k]) THEN 0 ELSE 1

\* C22: integrate_feedback, called when the latest entry of decision_history
\* is a decision, returns having recorded the computed effectiveness signal
\* in strategy_effectiveness_map under that decision's strategy label;
\* called with an empty history it leaves the map as it was (empty, in an
\* engine that has recorded nothing).
C22_FeedbackRecordedAgainstLatestLabel ==
    last_call.op = "integrate_feedback" =>
        IF decision_history = <<>>
        THEN last_call.outcome = "returned" /\ strategy_effectiveness_map = EmptyDict
        ELSE decision_history[Len(decision_history)].shape = "Decision" =>
                /\ last_call.outcome = "returned"
                /\ decision_history[Len(decision_history)].strategy["strategy_name"]
                        \in {Str(l) : l \in DOMAIN strategy_effectiveness_map}

\* C23: after any sequence of decide_strategy and refine_strategy calls, a
\* call of integrate_feedback or of get_decision_summary returns: none of
\* them ends in an exception over the shape of a history entry.
C23_HistoryReadableAfterDecisions ==
    last_call.op \in {"integrate_feedback", "get_decision_summary"} =>
        last_call.outcome = "returned"

\* C24: a process_audio call that makes no new decision while a strategy is
\* in effect leaves current_strategy and last_decision_time as they were and
\* hands that same strategy to the processor, so a preset selected by hand
\* stays in effect over such calls; select_strategy_preset with a name the
\* library does not hold returns False and leaves current_strategy as it was.
C24_StandingStrategyStaysInEffect ==
    [][ /\ (/\ last_call'.op = "process_audio"
            /\ last_call'.status # "disabled"
            /\ last_call'.engine.outcome = "none"
            /\ current_strategy.some)
           => /\ current_strategy' = current_strategy
              /\ last_decision_time' = last_decision_time
              /\ last_call'.handed = current_strategy
        /\ (/\ last_call'.op = "select_strategy_preset"
            /\ last_call'.report.strategy_name.s \notin {T_silence, T_quiet_office})
           => /\ last_call'.status = "False"
              /\ current_strategy' = current_strategy ]_vars

\* C24 witness: the "silence" preset was selected on a controller that had
\* decided at time 0, and a later process_audio call that asked the engine
\* nothing processed its frame with that preset.
C24_PresetAppliedWithoutDecision ==
    /\ last_call.op = "process_audio"
    /\ last_call.engine.outcome = "none"
    /\ last_call.status = "success"
    /\ last_call.handed = silence
    /\ current_strategy = silence
    /\ last_decision_time = 0

\* C25: while processing is disabled, every call that takes audio
\* (process_audio, process_audio_with_feedback) reports the passthrough
\* status with no strategy applied, does not invoke the decision engine, and
\* leaves current_strategy and last_decision_time as they were.
C25_DisabledMeansPassthrough ==
    [][ (/\ ~processing_enabled
         /\ last_call' # last_call
         /\ last_call'.op \in {"process_audio", "process_audio_with_feedback"})
        => /\ last_call'.outcome = "returned"
           /\ last_call'.status = "disabled"
           /\ ~last_call'.handed.some
           /\ last_call'.engine.outcome = "none"
           /\ engine_calls' = engine_calls
           /\ current_strategy' = current_strategy
           /\ last_decision_time' = last_decision_time ]_vars

\* C26: every decision the engine emits from a decision operation carries a
\* duration_seconds within [10, 3600], whatever duration the advisor
\* proposed: a proposal below 10 is raised to 10 and a proposal above 3600
\* is never emitted as the decision's duration.
C26_EmittedDurationWithinBounds ==
    (/\ last_call.op \in {"decide_strategy", "refine_strategy", "oral_decide_strategy"}
     /\ last_call.engine.outcome = "returned")
    => LET decision == last_call.engine.decision
           Bounded(dur) == MIN_DECISION_DURATION <= dur /\ dur <= MAX_DECISION_DURATION
       IN IF decision.shape = "Decision"
          THEN Bounded(decision.duration_seconds)
          ELSE "duration_seconds" \in DOMAIN decision.strategy
                  => Bounded(PyInt(decision.strategy["duration_seconds"]))

\* C27: for every observation, whatever its speech_confidence (also outside
\* [0, 1]), _assess_confidence returns a value in [0.3, 1.0] computed as:
\* the speech confidence; plus 0.1 capped at 1.0 when the listening intent
\* is conversation or speech_recovery; then, when the scene is unknown,
\* minus 0.2 floored at 0.4; finally clamped to [0.3, 1.0].
C27_AssessedConfidenceClamped ==
    last_call.op = "assess_confidence" =>
        LET observation == last_call.engine.observation
            confidence == last_call.engine.decision.confidence
            base == observation.speech_confidence
            speechy == observation.listening_intent \in {"conversation", "speech_recovery"}
            lifted == IF speechy THEN (IF base + 10 > 100 THEN 100 ELSE base + 10) ELSE base
            lowered == IF observation.acoustic_scene = "unknown"
                       THEN (IF lifted - 20 < 40 THEN 40 ELSE lifted - 20)
                       ELSE lifted
        IN /\ 30 <= confidence
           /\ confidence <= 100
           /\ confidence = IF lowered < 30 THEN 30 ELSE IF lowered > 100 THEN 100 ELSE lowered

\* C27 witness: a speech confidence of -0.5 in a known scene with an intent
\* that adds nothing is assessed at the floor, 0.3.
C27_NegativeConfidenceFloored ==
    /\ last_call.op = "assess_confidence"
    /\ last_call.engine.observation =
          [acoustic_scene |-> "restaurant", speech_confidence |-> -50,
           listening_intent |-> "music"]
    /\ last_call.engine.decision.confidence = 30

\* C28: an unknown acoustic scene never raises the assessed confidence: the
\* value returned for an observation with acoustic_scene = "unknown" is at
\* most the value returned for the same observation with a known scene.
C28_UnknownSceneNeverRaisesConfidence ==
    (/\ last_call.op = "assess_confidence"
     /\ last_call.engine.observation.acoustic_scene = "unknown")
    => last_call.engine.decision.confidence
          <= assess_confidence([last_call.engine.observation
                                    EXCEPT !.acoustic_scene = "restaurant"])

\* C29: apply_strategy runs its stages in the fixed order noise suppression,
\* noise gate, speech enhancement, compression, banded emphasis, high/low
\* frequency adjustment, adaptive gain, hard clip; suppression, enhancement,
\* compression and banded emphasis are left out exactly when strength <= 0,
\* level <= 0, ratio <= 1 and no emphasis map is given, and the gate, the
\* adjustment, the gain and the clip run on every call.  A call that raises
\* has run the stages of that order up to the one that raised.
C29_StagesRunInFixedOrder ==
    LET Due(stage) ==
            CASE stage = "noise_suppression" -> ~(proc_strategy.noise_suppression_strength <= 0)
              [] stage = "speech_enhancement" -> ~(proc_strategy.speech_enhancement_level <= 0)
              [] stage = "compression" ->
                    ~(proc_strategy.dynamic_range_compression_ratio <= 100)
              [] stage = "frequency_emphasis" -> proc_strategy.frequency_emphasis
              [] OTHER -> TRUE
        due == SelectSeq(StageOrder, Due)
    IN /\ processed.status = "returned" => processed.stages = due
       /\ processed.status = "raised" =>
             /\ Len(processed.stages) \in 1..Len(due)
             /\ processed.stages = SubSeq(due, 1, Len(processed.stages))

\* C29 witness: a call with suppression, enhancement, compression and an
\* emphasis map returned after all eight stages.
C29_AllEightStagesRan ==
    /\ processed.status = "returned"
    /\ processed.stages = StageOrder
    /\ proc_strategy.dynamic_range_compression_ratio = 300

\* C30: for every compression ratio in (1, 8] and every sample whose
\* magnitude exceeds the 0.5 threshold, the gain _apply_compression computes
\* before smoothing lies in (0, 1] (no amplification, no sign inversion), and
\* a sample at or below the threshold gets gain 1.
C30_UnsmoothedGainInUnitInterval ==
    (/\ compressed.status = "computed"
     /\ compressed.ratio > 100 /\ compressed.ratio <= 800)
    => IF Abs(compressed.sample) * 100 > COMPRESSION_THRESHOLD
       THEN /\ compressed.gain.num > 0
            /\ compressed.gain.num <= compressed.gain.den
       ELSE compressed.gain.num = compressed.gain.den

====
